---- MODULE Spec2Model ----
(***************************************************************************)
(* Model of the connection/session core of the terminal application:       *)
(*   - the connection store      (src/src/lib/stores/connection.ts)        *)
(*   - the application store     (src/src/lib/stores.ts)                   *)
(*   - the terminal store        (src/.backup/stores/terminal.ts)          *)
(* Every async store method is split at its await: the call step runs the  *)
(* code before the await and leaves a pending request, and one step per    *)
(* backend outcome runs the continuation.  The backend (Tauri commands) is *)
(* the environment: it answers every request with success, with a failure  *)
(* response, or by rejecting the invoke promise.                           *)
(***************************************************************************)
EXTENDS Integers, Sequences, FiniteSets, Bags, TLC

\* ------------------------------------------------------------------------
\* Bounds of the model
\* ------------------------------------------------------------------------
\* number of backend requests of the connection store in flight at once
MaxInFlight == 2
\* largest max_history_size a backend configuration carries
MaxCapacity == 3
\* number of messages in the log beyond which no further append is started
MaxLogLen == 4
\* longest message list the backend returns to loadMessages
MaxLoadLen == 2
\* number of message listeners whose registration is followed
MaxListeners == 2
\* number of messages in appState.messages up to which the store is followed
MaxAppMessages == 2
\* number of appends followed when the log is filled from empty
MaxAppended == 5
\* longest history for which navigation is followed
MaxNavLen == 3

\* longest text typed into the input field, beside the two examples
MaxInputLen == 3

\* largest whole number typed into a number field of the TCP form
MaxTyped == 10

\* largest max_reconnect_attempts and reconnect_interval_sec of a session
MaxAttempts == 2

MaxInterval == 2

\* most losses of the transport followed in one session
MaxCloses == 4

\* ------------------------------------------------------------------------
\* Values
\* ------------------------------------------------------------------------
\* JavaScript null
NULL == "null"

\* the default capacity of a message log (max_history_size)
DefaultCapacity == 1000

\* ConnectionConfig values handed to connect(config)
Configs == {"serial1", "tcp1"}

\* ConnectionStatus (the string union used by the connection store)
ConnectionStatus == {"Disconnected", "Connecting", "Connected", "Error"}

\* what the backend does with one request: a success response, a failure
\* response carrying response.error, or a rejected invoke promise
Outcomes == {"ok", "fail", "throw"}

\* response.error of a failure response
BackendError == "backend error"

VARIABLES
    \* ---- connection store (ConnectionState) ----
    currentConnection,   \* ConnectionConfig | null
    connectionStatus,    \* ConnectionStatus
    isLoading,           \* boolean
    error,               \* string | null
    pending,             \* bag of the store's backend requests in flight
    lastResult,          \* how the last settled store call returned to its caller
    \* ---- terminal store (TerminalState) ----
    messages,            \* TerminalMessage[]
    config,              \* TerminalConfig (the field the store reads)
    searchQuery,         \* string
    filteredMessages,    \* TerminalMessage[]
    selectedMessages,    \* set of message ids
    commandHistory,      \* CommandHistory: commands, max_size, current_index
    tpending,            \* bag of the terminal store's backend requests in flight
    histResult,          \* what the last command-history call did and returned
    appended,            \* the messages appended so far, in order of appending
    delivered,           \* the messages the listener was handed, in order of delivery
    \* ---- application store (appState and the stores beside it) ----
    appConnection,       \* appState.connection
    appMessages,         \* appState.messages
    currentInput,        \* string
    inputMode,           \* 'text' | 'hex'
    connectionForm,      \* ConnectionConfig
    listenersInitialized, \* boolean
    listeners,           \* number of registered listeners per event
    lastMessageId,       \* string
    apending,            \* bag of the application store's requests in flight
    \* ---- TerminalInput.svelte ----
    inputText,           \* string, as its sequence of UTF-16 code units
    hexMode,             \* boolean
    lineEnding,          \* 'None' | 'CR' | 'LF' | 'CRLF'
    isSending,           \* boolean
    isConnected,         \* $connection.status === 'connected'
    ipending,            \* bag of the component's send_message requests in flight
    notified,            \* the last error handed to notifications.error
    hexResult,           \* what the last hexToString call returned
    displayed,           \* what getMessageDisplayContent last returned, and for what
    \* ---- ConnectionPanel and TcpConfig.svelte ----
    tcp_config,          \* currentConfig.tcp_config (the reconnection fields)
    \* ---- the connection manager of the backend ----
    manager,             \* its status, error, configuration and retry counts
    \* ---- the serial ports of the connection store ----
    availablePorts       \* the port names of the last refreshPorts

connVars == <<currentConnection, connectionStatus, isLoading, error, pending, lastResult>>

logVars == <<messages, config, searchQuery, filteredMessages, selectedMessages>>

histVars == <<commandHistory, histResult>>

termVars == <<logVars, histVars, tpending, appended, delivered>>

appVars == <<appConnection, appMessages, currentInput, inputMode, connectionForm,
             listenersInitialized, listeners, lastMessageId, apending>>

inputVars == <<inputText, hexMode, lineEnding, isSending, isConnected, ipending,
               notified, hexResult, displayed>>

tcpVars == <<tcp_config>>

mgrVars == <<manager>>

portVars == <<availablePorts>>

vars == <<connVars, termVars, appVars, inputVars, tcpVars, mgrVars, portVars>>

\* ------------------------------------------------------------------------
\* Connection store
\* ------------------------------------------------------------------------
\* a request in flight: the Tauri command, its config argument, and the
\* connection status the store was in when the method was called
Request(cmd, cfg) == [cmd |-> cmd, config |-> cfg, at |-> connectionStatus]

InFlight(cmd) == {r \in DOMAIN pending : r.cmd = cmd}

NumInFlight(cmd) ==
    LET S == InFlight(cmd)
        RECURSIVE Sum(_)
        Sum(T) == IF T = {} THEN 0
                  ELSE LET r == CHOOSE x \in T : TRUE
                       IN pending[r] + Sum(T \ {r})
    IN Sum(S)

Issue(r) == pending' = pending (+) SetToBag({r})

Settle(r) == pending' = pending (-) SetToBag({r})

\* the message the catch block stores: error.message of the Error thrown for
\* a failure response (response.error || fallback), or the fallback when the
\* rejection is not an Error instance
ErrorMessage(outcome, fallback) ==
    IF outcome = "fail" THEN BackendError ELSE fallback

Result(op, r, outcome) == [op |-> op, at |-> r.at, outcome |-> outcome]

ConnInit ==
    /\ currentConnection = NULL
    /\ connectionStatus = "Disconnected"
    /\ isLoading = FALSE
    /\ error = NULL
    /\ pending = EmptyBag
    /\ lastResult = [op |-> "none", at |-> "Disconnected", outcome |-> "none"]

\* availablePorts as the store is created
PortsInit == availablePorts = <<>>

\* the lists of port names get_serial_ports answers with
PortLists == {<<>>, <<"COM1">>, <<"COM1", "COM3">>}

\* refreshPorts(), up to the await of invoke('get_serial_ports')
refreshPorts ==
    /\ BagCardinality(pending) < MaxInFlight
    /\ isLoading' = TRUE
    /\ error' = NULL
    /\ Issue(Request("get_serial_ports", NULL))
    /\ UNCHANGED <<currentConnection, connectionStatus, lastResult, availablePorts>>

\* response.success && response.data: the list is stored
refreshPorts_success(r, data) ==
    /\ r \in InFlight("get_serial_ports")
    /\ availablePorts' = data
    /\ isLoading' = FALSE
    /\ Settle(r)
    /\ UNCHANGED <<currentConnection, connectionStatus, error, lastResult>>

\* a failure response or a rejected invoke: the catch block
refreshPorts_error(r, outcome) ==
    /\ r \in InFlight("get_serial_ports")
    /\ outcome \in {"fail", "throw"}
    /\ availablePorts' = <<>>
    /\ isLoading' = FALSE
    /\ error' = IF outcome = "fail" THEN BackendError ELSE "Unknown error"
    /\ Settle(r)
    /\ UNCHANGED <<currentConnection, connectionStatus, lastResult>>

\* connect(config), up to the await of invoke('connect_device')
connect(cfg) ==
    /\ BagCardinality(pending) < MaxInFlight
    /\ connectionStatus' = "Connecting"
    /\ isLoading' = TRUE
    /\ error' = NULL
    /\ Issue(Request("connect_device", cfg))
    /\ UNCHANGED <<currentConnection, lastResult>>

\* connect: response.success; the store is updated and the method goes on
\* to await updateRecentProfile(config.id) -> setActiveProfile
connect_success(r) ==
    /\ r \in InFlight("connect_device")
    /\ currentConnection' = r.config
    /\ connectionStatus' = "Connected"
    /\ isLoading' = FALSE
    /\ pending' = (pending (-) SetToBag({r}))
                    (+) SetToBag({[r EXCEPT !.cmd = "set_active_profile"]})
    /\ UNCHANGED <<error, lastResult>>

\* connect: failure response or rejected invoke; the catch block
connect_error(r, outcome) ==
    /\ r \in InFlight("connect_device")
    /\ outcome \in {"fail", "throw"}
    /\ connectionStatus' = "Error"
    /\ isLoading' = FALSE
    /\ error' = ErrorMessage(outcome, "Connection failed")
    /\ Settle(r)
    /\ lastResult' = Result("connect", r, "rejected")
    /\ UNCHANGED currentConnection

\* setActiveProfile succeeded inside updateRecentProfile; connect resolves
setActiveProfile_success(r) ==
    /\ r \in InFlight("set_active_profile")
    /\ Settle(r)
    /\ lastResult' = Result("connect", r, "resolved")
    /\ UNCHANGED <<currentConnection, connectionStatus, isLoading, error>>

\* setActiveProfile failed: it records the error and rethrows,
\* updateRecentProfile swallows the exception, connect resolves
setActiveProfile_error(r, outcome) ==
    /\ r \in InFlight("set_active_profile")
    /\ outcome \in {"fail", "throw"}
    /\ error' = ErrorMessage(outcome, "Failed to set active profile")
    /\ Settle(r)
    /\ lastResult' = Result("connect", r, "resolved")
    /\ UNCHANGED <<currentConnection, connectionStatus, isLoading>>

\* disconnect(), up to the await of invoke('disconnect_device')
disconnect ==
    /\ BagCardinality(pending) < MaxInFlight
    /\ isLoading' = TRUE
    /\ error' = NULL
    /\ Issue(Request("disconnect_device", NULL))
    /\ UNCHANGED <<currentConnection, connectionStatus, lastResult>>

disconnect_success(r) ==
    /\ r \in InFlight("disconnect_device")
    /\ currentConnection' = NULL
    /\ connectionStatus' = "Disconnected"
    /\ isLoading' = FALSE
    /\ Settle(r)
    /\ lastResult' = Result("disconnect", r, "resolved")
    /\ UNCHANGED error

disconnect_error(r, outcome) ==
    /\ r \in InFlight("disconnect_device")
    /\ outcome \in {"fail", "throw"}
    /\ isLoading' = FALSE
    /\ error' = ErrorMessage(outcome, "Disconnect failed")
    /\ Settle(r)
    /\ lastResult' = Result("disconnect", r, "rejected")
    /\ UNCHANGED <<currentConnection, connectionStatus>>

\* sendMessage(message), up to the await of invoke('send_message')
sendMessage ==
    /\ BagCardinality(pending) < MaxInFlight
    /\ Issue(Request("send_message", NULL))
    /\ UNCHANGED <<currentConnection, connectionStatus, isLoading, error, lastResult>>

sendMessage_success(r) ==
    /\ r \in InFlight("send_message")
    /\ Settle(r)
    /\ lastResult' = Result("sendMessage", r, "resolved")
    /\ UNCHANGED <<currentConnection, connectionStatus, isLoading, error>>

sendMessage_error(r, outcome) ==
    /\ r \in InFlight("send_message")
    /\ outcome \in {"fail", "throw"}
    /\ error' = ErrorMessage(outcome, "Send failed")
    /\ Settle(r)
    /\ lastResult' = Result("sendMessage", r, "rejected")
    /\ UNCHANGED <<currentConnection, connectionStatus, isLoading>>

\* checkConnectionStatus(), up to the await of invoke('get_connection_status')
checkConnectionStatus ==
    /\ BagCardinality(pending) < MaxInFlight
    /\ Issue(Request("get_connection_status", NULL))
    /\ UNCHANGED <<currentConnection, connectionStatus, isLoading, error, lastResult>>

\* response.success with response.data = data (a boolean)
checkConnectionStatus_success(r, data) ==
    /\ r \in InFlight("get_connection_status")
    /\ connectionStatus' = IF data THEN "Connected" ELSE "Disconnected"
    /\ Settle(r)
    /\ lastResult' = Result("checkConnectionStatus", r, "resolved")
    /\ UNCHANGED <<currentConnection, isLoading, error>>

\* failure response (no update) or rejected invoke (logged only)
checkConnectionStatus_error(r) ==
    /\ r \in InFlight("get_connection_status")
    /\ Settle(r)
    /\ lastResult' = Result("checkConnectionStatus", r, "resolved")
    /\ UNCHANGED <<currentConnection, connectionStatus, isLoading, error>>

clearError ==
    /\ error # NULL
    /\ error' = NULL
    /\ UNCHANGED <<currentConnection, connectionStatus, isLoading, pending, lastResult>>

\* ------------------------------------------------------------------------
\* Strings.  A JavaScript string is modelled as the sequence of its
\* characters, so that trim(), toLowerCase() and includes() are computed.
\* ------------------------------------------------------------------------
WhiteSpace == {" ", "\t", "\n", "\r"}

UpperCase == <<"A", "B", "C", "D", "E", "F", "G", "H", "I", "J", "K", "L", "M",
               "N", "O", "P", "Q", "R", "S", "T", "U", "V", "W", "X", "Y", "Z">>

LowerCase == <<"a", "b", "c", "d", "e", "f", "g", "h", "i", "j", "k", "l", "m",
               "n", "o", "p", "q", "r", "s", "t", "u", "v", "w", "x", "y", "z">>

\* String.prototype.trim
RECURSIVE TrimStart(_)
TrimStart(s) ==
    IF s # <<>> /\ Head(s) \in WhiteSpace THEN TrimStart(Tail(s)) ELSE s

RECURSIVE TrimEnd(_)
TrimEnd(s) ==
    IF s # <<>> /\ s[Len(s)] \in WhiteSpace THEN TrimEnd(SubSeq(s, 1, Len(s) - 1)) ELSE s

Trim(s) == TrimEnd(TrimStart(s))

\* String.prototype.toLowerCase
ToLowerChar(c) ==
    IF \E i \in 1..Len(UpperCase) : UpperCase[i] = c
    THEN LowerCase[CHOOSE i \in 1..Len(UpperCase) : UpperCase[i] = c]
    ELSE c

ToLowerCase(s) == [i \in 1..Len(s) |-> ToLowerChar(s[i])]

\* String.prototype.includes
Includes(s, t) ==
    \E i \in 0..(Len(s) - Len(t)) : SubSeq(s, i + 1, i + Len(t)) = t

\* JavaScript null where a string is expected
NONE == <<NULL>>

\* ------------------------------------------------------------------------
\* Terminal store
\* ------------------------------------------------------------------------
\* current_index: null
NoIndex == -1

\* messages delivered by the backend (id and content of a TerminalMessage)
TermMessages ==
    { [id |-> "m1", content |-> <<"O", "K">>],
      [id |-> "m2", content |-> <<"e", "r", "r">>],
      [id |-> "m3", content |-> <<"o", "k", " ", "2">>] }

NoMessage == [id |-> NULL, content |-> <<>>]

\* max_history_size values of the configurations the backend hands out
Capacities == 0..MaxCapacity

\* message lists the backend returns to loadMessages
LoadedLogs == UNION {[1..n -> TermMessages] : n \in 0..MaxLoadLen}

\* search queries typed by the user
Queries == {<<>>, <<" ">>, <<"o", "k">>}

\* commands typed by the user
LS == <<"l", "s">>

PWD == <<"p", "w", "d">>

Commands == {LS, PWD, <<>>, <<" ">>}

\* a request of the terminal store in flight, with the argument of the call
TRequest(cmd, message, size, command) ==
    [cmd |-> cmd, message |-> message, max_history_size |-> size, command |-> command]

TInFlight(cmd) == {r \in DOMAIN tpending : r.cmd = cmd}

TIssue(r) == tpending' = tpending (+) SetToBag({r})

TSettle(r) == tpending' = tpending (-) SetToBag({r})

TermInitial(size) ==
    /\ messages = <<>>
    /\ config = [max_history_size |-> size]
    /\ searchQuery = <<>>
    /\ filteredMessages = <<>>
    /\ selectedMessages = {}
    /\ commandHistory = [commands |-> <<>>, max_size |-> 100, current_index |-> NoIndex]
    /\ tpending = EmptyBag
    /\ histResult = [op |-> "none", effect |-> "none", value |-> NONE]
    /\ appended = <<>>
    /\ delivered = <<>>

TermInit == TermInitial(DefaultCapacity)

\* ---- configuration ----
loadConfig ==
    /\ BagCardinality(tpending) < MaxInFlight
    /\ TIssue(TRequest("get_terminal_config", NoMessage, 0, <<>>))
    /\ UNCHANGED <<logVars, histVars>>

\* response.success with response.data = a configuration
loadConfig_success(r, size) ==
    /\ r \in TInFlight("get_terminal_config")
    /\ config' = [max_history_size |-> size]
    /\ TSettle(r)
    /\ UNCHANGED <<messages, searchQuery, filteredMessages, selectedMessages, histVars>>

loadConfig_error(r) ==
    /\ r \in TInFlight("get_terminal_config")
    /\ TSettle(r)
    /\ UNCHANGED <<logVars, histVars>>

saveConfig(size) ==
    /\ BagCardinality(tpending) < MaxInFlight
    /\ TIssue(TRequest("update_terminal_config", NoMessage, size, <<>>))
    /\ UNCHANGED <<logVars, histVars>>

saveConfig_success(r) ==
    /\ r \in TInFlight("update_terminal_config")
    /\ config' = [max_history_size |-> r.max_history_size]
    /\ TSettle(r)
    /\ UNCHANGED <<messages, searchQuery, filteredMessages, selectedMessages, histVars>>

\* the error is logged and rethrown; the store is not touched
saveConfig_error(r) ==
    /\ r \in TInFlight("update_terminal_config")
    /\ TSettle(r)
    /\ UNCHANGED <<logVars, histVars>>

\* ---- messages ----
\* applySearchFilter without toLowerCase on the content
applySearchFilter_cased(msgs, query) ==
    IF Trim(query) = <<>> THEN msgs
    ELSE SelectSeq(msgs, LAMBDA m : Includes(m.content, ToLowerCase(query)))

applySearchFilter(msgs, query) ==
    IF Trim(query) = <<>> THEN msgs
    ELSE SelectSeq(msgs, LAMBDA m : Includes(ToLowerCase(m.content), ToLowerCase(query)))

loadMessages ==
    /\ BagCardinality(tpending) < MaxInFlight
    /\ TIssue(TRequest("get_terminal_messages", NoMessage, 0, <<>>))
    /\ UNCHANGED <<logVars, histVars>>

loadMessages_success(r, data) ==
    /\ r \in TInFlight("get_terminal_messages")
    /\ messages' = data
    /\ filteredMessages' = data
    /\ TSettle(r)
    /\ UNCHANGED <<config, searchQuery, selectedMessages, histVars>>

loadMessages_error(r) ==
    /\ r \in TInFlight("get_terminal_messages")
    /\ TSettle(r)
    /\ UNCHANGED <<logVars, histVars>>

\* addMessage(message), up to the await; also what the
\* terminal-message-received listener runs for every event
addMessage(message) ==
    /\ BagCardinality(tpending) < MaxInFlight
    /\ TIssue(TRequest("add_terminal_message", message, 0, <<>>))
    /\ UNCHANGED <<logVars, histVars>>

\* AppendMessage evicting from the tail instead of the head
AppendMessage_tail(msgs, message, size) ==
    LET newMessages == Append(msgs, message)
    IN IF Len(newMessages) > size THEN SubSeq(newMessages, 1, size) ELSE newMessages

\* the update of addMessage: append, then splice(0, removeCount)
AppendMessage(msgs, message, size) ==
    LET newMessages == Append(msgs, message)
    IN IF Len(newMessages) > size
       THEN SubSeq(newMessages, Len(newMessages) - size + 1, Len(newMessages))
       ELSE newMessages

addMessage_success(r) ==
    /\ r \in TInFlight("add_terminal_message")
    /\ LET newMessages == AppendMessage(messages, r.message, config.max_history_size)
       IN /\ messages' = newMessages
          /\ filteredMessages' = applySearchFilter(newMessages, searchQuery)
    /\ TSettle(r)
    /\ UNCHANGED <<config, searchQuery, selectedMessages, histVars>>

addMessage_error(r) ==
    /\ r \in TInFlight("add_terminal_message")
    /\ TSettle(r)
    /\ UNCHANGED <<logVars, histVars>>

clearMessages ==
    /\ BagCardinality(tpending) < MaxInFlight
    /\ TIssue(TRequest("clear_terminal_messages", NoMessage, 0, <<>>))
    /\ UNCHANGED <<logVars, histVars>>

clearMessages_success(r) ==
    /\ r \in TInFlight("clear_terminal_messages")
    /\ messages' = <<>>
    /\ filteredMessages' = <<>>
    /\ selectedMessages' = {}
    /\ TSettle(r)
    /\ UNCHANGED <<config, searchQuery, histVars>>

clearMessages_error(r) ==
    /\ r \in TInFlight("clear_terminal_messages")
    /\ TSettle(r)
    /\ UNCHANGED <<logVars, histVars>>

setSearchQuery(query) ==
    /\ searchQuery' = query
    /\ filteredMessages' = applySearchFilter(messages, query)
    /\ UNCHANGED <<messages, config, selectedMessages, histVars, tpending>>

\* ---- command history ----
\* JavaScript undefined where a string is expected
UNDEFINED == <<"undefined">>

\* commands[i] of a JavaScript array (indices from 0)
At(s, i) == IF i + 1 \in 1..Len(s) THEN s[i + 1] ELSE UNDEFINED

loadCommandHistory ==
    /\ BagCardinality(tpending) < MaxInFlight
    /\ TIssue(TRequest("get_command_history", NoMessage, 0, <<>>))
    /\ UNCHANGED <<logVars, histVars>>

loadCommandHistory_success(r, data) ==
    /\ r \in TInFlight("get_command_history")
    /\ commandHistory' = [commandHistory EXCEPT !.commands = data]
    /\ histResult' = [op |-> "load", effect |-> "none", value |-> NONE]
    /\ TSettle(r)
    /\ UNCHANGED logVars

loadCommandHistory_error(r) ==
    /\ r \in TInFlight("get_command_history")
    /\ TSettle(r)
    /\ UNCHANGED <<logVars, histVars>>

\* addCommandToHistory(command), up to the await: a blank command returns
\* at once, any other is sent to the backend
addCommandToHistory(command) ==
    IF Trim(command) = <<>>
    THEN UNCHANGED <<logVars, histVars, tpending>>
    ELSE /\ BagCardinality(tpending) < MaxInFlight
         /\ TIssue(TRequest("add_command_to_history", NoMessage, 0, command))
         /\ UNCHANGED <<logVars, histVars>>

\* which branch the update of addCommandToHistory takes
PushEffect(history, command) ==
    IF history.commands # <<>> /\ history.commands[Len(history.commands)] = command
    THEN "duplicate"
    ELSE IF Len(history.commands) + 1 > history.max_size THEN "evicted" ELSE "appended"

\* PushCommand without the comparison with the last entry
PushCommand_nodedup(history, command) ==
    LET pushed == Append(history.commands, command)
    IN [history EXCEPT
          !.commands = IF Len(pushed) > history.max_size THEN Tail(pushed) ELSE pushed,
          !.current_index = NoIndex]

\* PushCommand without the shift at max_size
PushCommand_noshift(history, command) ==
    [history EXCEPT
       !.commands = IF PushEffect(history, command) = "duplicate" THEN history.commands
                    ELSE Append(history.commands, command),
       !.current_index = NoIndex]

\* the update of addCommandToHistory: push unless equal to the last entry,
\* shift when over max_size, reset the cursor
PushCommand(history, command) ==
    LET effect == PushEffect(history, command)
        pushed == Append(history.commands, command)
    IN [history EXCEPT
          !.commands = IF effect = "duplicate" THEN history.commands
                       ELSE IF effect = "evicted" THEN Tail(pushed)
                       ELSE pushed,
          !.current_index = NoIndex]

addCommandToHistory_success(r) ==
    /\ r \in TInFlight("add_command_to_history")
    /\ commandHistory' = PushCommand(commandHistory, r.command)
    /\ histResult' = [op |-> "push", effect |-> PushEffect(commandHistory, r.command),
                      value |-> r.command]
    /\ TSettle(r)
    /\ UNCHANGED logVars

addCommandToHistory_error(r) ==
    /\ r \in TInFlight("add_command_to_history")
    /\ TSettle(r)
    /\ UNCHANGED <<logVars, histVars>>

\* getPreviousCommand comparing with >= instead of >
getPreviousCommand_pastoldest ==
    LET history == commandHistory
    IN /\ IF history.commands = <<>>
          THEN /\ histResult' = [op |-> "prev", effect |-> "none", value |-> NONE]
               /\ UNCHANGED commandHistory
          ELSE IF history.current_index = NoIndex
          THEN LET newIndex == Len(history.commands) - 1
               IN /\ commandHistory' = [history EXCEPT !.current_index = newIndex]
                  /\ histResult' = [op |-> "prev", effect |-> "moved",
                                    value |-> At(history.commands, newIndex)]
          ELSE IF history.current_index >= 0
          THEN LET newIndex == history.current_index - 1
               IN /\ commandHistory' = [history EXCEPT !.current_index = newIndex]
                  /\ histResult' = [op |-> "prev", effect |-> "moved",
                                    value |-> At(history.commands, newIndex)]
          ELSE /\ histResult' = [op |-> "prev", effect |-> "none", value |-> NONE]
               /\ UNCHANGED commandHistory
       /\ UNCHANGED <<logVars, tpending>>

getPreviousCommand ==
    LET history == commandHistory
    IN /\ IF history.commands = <<>>
          THEN /\ histResult' = [op |-> "prev", effect |-> "none", value |-> NONE]
               /\ UNCHANGED commandHistory
          ELSE IF history.current_index = NoIndex
          THEN LET newIndex == Len(history.commands) - 1
               IN /\ commandHistory' = [history EXCEPT !.current_index = newIndex]
                  /\ histResult' = [op |-> "prev", effect |-> "moved",
                                    value |-> At(history.commands, newIndex)]
          ELSE IF history.current_index > 0
          THEN LET newIndex == history.current_index - 1
               IN /\ commandHistory' = [history EXCEPT !.current_index = newIndex]
                  /\ histResult' = [op |-> "prev", effect |-> "moved",
                                    value |-> At(history.commands, newIndex)]
          ELSE /\ histResult' = [op |-> "prev", effect |-> "none", value |-> NONE]
               /\ UNCHANGED commandHistory
       /\ UNCHANGED <<logVars, tpending>>

\* getNextCommand comparing with <= instead of <
getNextCommand_offbyone ==
    LET history == commandHistory
    IN /\ IF history.current_index = NoIndex
          THEN /\ histResult' = [op |-> "next", effect |-> "none", value |-> NONE]
               /\ UNCHANGED commandHistory
          ELSE IF history.current_index <= Len(history.commands) - 1
          THEN LET newIndex == history.current_index + 1
               IN /\ commandHistory' = [history EXCEPT !.current_index = newIndex]
                  /\ histResult' = [op |-> "next", effect |-> "moved",
                                    value |-> At(history.commands, newIndex)]
          ELSE /\ commandHistory' = [history EXCEPT !.current_index = NoIndex]
               /\ histResult' = [op |-> "next", effect |-> "reset", value |-> <<>>]
       /\ UNCHANGED <<logVars, tpending>>

getNextCommand ==
    LET history == commandHistory
    IN /\ IF history.current_index = NoIndex
          THEN /\ histResult' = [op |-> "next", effect |-> "none", value |-> NONE]
               /\ UNCHANGED commandHistory
          ELSE IF history.current_index < Len(history.commands) - 1
          THEN LET newIndex == history.current_index + 1
               IN /\ commandHistory' = [history EXCEPT !.current_index = newIndex]
                  /\ histResult' = [op |-> "next", effect |-> "moved",
                                    value |-> At(history.commands, newIndex)]
          ELSE /\ commandHistory' = [history EXCEPT !.current_index = NoIndex]
               /\ histResult' = [op |-> "next", effect |-> "reset", value |-> <<>>]
       /\ UNCHANGED <<logVars, tpending>>

\* ------------------------------------------------------------------------
\* Application store (appState, currentInput, connectionForm, listeners)
\* ------------------------------------------------------------------------
NoConfig == [type |-> "none", name |-> "", serialPort |-> <<>>, host |-> <<>>, port |-> 0]

\* values of the connection form
SerialEmpty ==
    [type |-> "serial", name |-> "new", serialPort |-> <<>>, host |-> <<"h">>, port |-> 8080]

SerialCom1 ==
    [type |-> "serial", name |-> "com1", serialPort |-> <<"C", "O", "M", "1">>,
     host |-> <<"h">>, port |-> 8080]

TcpLocal ==
    [type |-> "tcp", name |-> "tcp", serialPort |-> <<>>, host |-> <<"h">>, port |-> 8080]

TcpPortZero ==
    [type |-> "tcp", name |-> "tcp0", serialPort |-> <<>>, host |-> <<"h">>, port |-> 0]

TcpPortHigh ==
    [type |-> "tcp", name |-> "tcp65536", serialPort |-> <<>>, host |-> <<"h">>, port |-> 65536]

AppForms == {SerialEmpty, SerialCom1, TcpLocal, TcpPortZero, TcpPortHigh}

\* texts typed into the input field
AppInputs == {<<>>, <<" ">>, <<"A", "T">>, <<"A", "T", " ">>}

\* payloads of terminal-message-received events; id NULL: no id in the payload
BackendMessages ==
    { [id |-> "b1", content |-> <<"O", "K">>],
      [id |-> "b2", content |-> <<"O", "K">>],
      [id |-> NULL, content |-> <<"O", "K">>] }

\* an id made by generateId(): a fresh UUID, equal to no other id
UUID == "uuid"

\* a request of the application store in flight, with what the
\* continuation keeps from before the await
ARequest(cmd, form, message) == [cmd |-> cmd, form |-> form, message |-> message]

NoAppMessage == [id |-> NULL, direction |-> "none", content |-> <<>>, type |-> "text"]

AInFlight(cmd) == {r \in DOMAIN apending : r.cmd = cmd}

ANumInFlight(cmd) ==
    LET RECURSIVE Sum(_)
        Sum(T) == IF T = {} THEN 0
                  ELSE LET r == CHOOSE x \in T : TRUE
                       IN apending[r] + Sum(T \ {r})
    IN Sum(AInFlight(cmd))

\* message listeners registered or being registered
ListenersStarted == listeners.message + ANumInFlight("listen_message")

AIssue(r) == apending' = apending (+) SetToBag({r})

ASettle(r) == apending' = apending (-) SetToBag({r})

AppInit ==
    /\ appConnection = [isConnected |-> FALSE, isConnecting |-> FALSE,
                        config |-> NoConfig, error |-> NULL]
    /\ appMessages = <<>>
    /\ currentInput = <<>>
    /\ inputMode = "text"
    /\ connectionForm = SerialEmpty
    /\ listenersInitialized = FALSE
    /\ listeners = [message |-> 0, status |-> 0]
    /\ lastMessageId = ""
    /\ apending = EmptyBag

validateSerialPort(port) == Len(Trim(port)) > 0

\* validateTcpConnection without the upper limit of the port
validateTcpConnection_noupper(host, port) ==
    LET hostValid == Len(Trim(host)) > 0
        portValid == port > 0
    IN hostValid /\ portValid

validateTcpConnection(host, port) ==
    LET hostValid == Len(Trim(host)) > 0
        portValid == port > 0 /\ port <= 65535
    IN hostValid /\ portValid

\* the message actions.addMessage(type, content) appends
InfoMessage(content) ==
    [id |-> UUID, direction |-> "received", content |-> content, type |-> "text"]

\* the form fields are bound to the inputs of ConnectionForm.svelte
setConnectionForm(form) ==
    /\ connectionForm' = form
    /\ UNCHANGED <<appConnection, appMessages, currentInput, inputMode,
                   listenersInitialized, listeners, lastMessageId, apending>>

\* the input field and the mode selector are bound to currentInput / inputMode
setCurrentInput(input, mode) ==
    /\ currentInput' = input
    /\ inputMode' = mode
    /\ UNCHANGED <<appConnection, appMessages, connectionForm,
                   listenersInitialized, listeners, lastMessageId, apending>>

\* actions.connect(), up to the await of invoke('connect_device')
actions_connect ==
    LET currentForm == connectionForm
        valid == IF currentForm.type = "serial"
                 THEN validateSerialPort(currentForm.serialPort)
                 ELSE validateTcpConnection(currentForm.host, currentForm.port)
    IN /\ IF ~valid
          THEN /\ appConnection' =
                     [appConnection EXCEPT !.error =
                         IF currentForm.type = "serial" THEN "select a serial port"
                         ELSE "enter host and port correctly"]
               /\ UNCHANGED apending
          ELSE /\ appConnection' = [appConnection EXCEPT !.isConnecting = TRUE, !.error = NULL]
               /\ AIssue(ARequest("connect_device", currentForm, NoAppMessage))
       /\ UNCHANGED <<appMessages, currentInput, inputMode, connectionForm,
                      listenersInitialized, listeners, lastMessageId>>

actions_connect_success(r) ==
    /\ r \in AInFlight("connect_device")
    /\ appConnection' = [appConnection EXCEPT !.isConnected = TRUE, !.isConnecting = FALSE,
                                              !.config = r.form]
    /\ appMessages' = Append(appMessages, InfoMessage(<<r.form.name, "connected">>))
    /\ ASettle(r)
    /\ UNCHANGED <<currentInput, inputMode, connectionForm,
                   listenersInitialized, listeners, lastMessageId>>

\* the error branches with isConnecting left as it is after a rejected invoke
actions_connect_error_keepflag(r, outcome) ==
    /\ r \in AInFlight("connect_device")
    /\ outcome \in {"fail", "throw"}
    /\ appConnection' =
         IF outcome = "fail"
         THEN [appConnection EXCEPT !.isConnecting = FALSE, !.error = BackendError]
         ELSE [appConnection EXCEPT !.error = "connection error"]
    /\ ASettle(r)
    /\ UNCHANGED <<appMessages, currentInput, inputMode, connectionForm,
                   listenersInitialized, listeners, lastMessageId>>

\* a failure response, or a rejected invoke: the two error branches
actions_connect_error(r, outcome) ==
    /\ r \in AInFlight("connect_device")
    /\ outcome \in {"fail", "throw"}
    /\ appConnection' = [appConnection EXCEPT !.isConnecting = FALSE,
                            !.error = IF outcome = "fail" THEN BackendError
                                      ELSE "connection error"]
    /\ ASettle(r)
    /\ UNCHANGED <<appMessages, currentInput, inputMode, connectionForm,
                   listenersInitialized, listeners, lastMessageId>>

\* actions.disconnect(), up to the await of invoke('disconnect_device')
actions_disconnect ==
    /\ AIssue(ARequest("disconnect_device", NoConfig, NoAppMessage))
    /\ UNCHANGED <<appConnection, appMessages, currentInput, inputMode, connectionForm,
                   listenersInitialized, listeners, lastMessageId>>

\* the continuation with the update made in the try block instead of finally
actions_disconnect_settled_nofinally(r, outcome) ==
    /\ r \in AInFlight("disconnect_device")
    /\ appMessages' = IF outcome = "ok"
                      THEN Append(appMessages, InfoMessage(<<"disconnected">>))
                      ELSE appMessages
    /\ appConnection' = IF outcome = "ok"
                        THEN [appConnection EXCEPT !.isConnected = FALSE,
                                                   !.config = NoConfig]
                        ELSE appConnection
    /\ ASettle(r)
    /\ UNCHANGED <<currentInput, inputMode, connectionForm,
                   listenersInitialized, listeners, lastMessageId>>

\* the continuation with its finally block
actions_disconnect_settled(r, outcome) ==
    /\ r \in AInFlight("disconnect_device")
    /\ appMessages' = IF outcome = "ok"
                      THEN Append(appMessages, InfoMessage(<<"disconnected">>))
                      ELSE appMessages
    /\ appConnection' = [appConnection EXCEPT !.isConnected = FALSE, !.config = NoConfig]
    /\ ASettle(r)
    /\ UNCHANGED <<currentInput, inputMode, connectionForm,
                   listenersInitialized, listeners, lastMessageId>>

\* actions.sendMessage(), up to the await of invoke('send_message')
actions_sendMessage ==
    /\ IF ~appConnection.isConnected \/ Trim(currentInput) = <<>>
       THEN UNCHANGED apending
       ELSE AIssue(ARequest("send_message", NoConfig,
                            [id |-> UUID, direction |-> "sent",
                             content |-> Trim(currentInput), type |-> inputMode]))
    /\ UNCHANGED <<appConnection, appMessages, currentInput, inputMode, connectionForm,
                   listenersInitialized, listeners, lastMessageId>>

actions_sendMessage_success(r) ==
    /\ r \in AInFlight("send_message")
    /\ appMessages' = Append(appMessages, r.message)
    /\ currentInput' = <<>>
    /\ ASettle(r)
    /\ UNCHANGED <<appConnection, inputMode, connectionForm,
                   listenersInitialized, listeners, lastMessageId>>

actions_sendMessage_error(r, outcome) ==
    /\ r \in AInFlight("send_message")
    /\ outcome \in {"fail", "throw"}
    /\ appMessages' = Append(appMessages,
                             InfoMessage(IF outcome = "fail" THEN <<BackendError>>
                                         ELSE <<"send error">>))
    /\ ASettle(r)
    /\ UNCHANGED <<appConnection, currentInput, inputMode, connectionForm,
                   listenersInitialized, listeners, lastMessageId>>

actions_clearMessages ==
    /\ appMessages' = <<>>
    /\ UNCHANGED <<appConnection, currentInput, inputMode, connectionForm,
                   listenersInitialized, listeners, lastMessageId, apending>>

\* actions.initializeEventListeners(), up to the first await of listen()
initializeEventListeners ==
    /\ IF listenersInitialized
       THEN UNCHANGED apending
       ELSE AIssue(ARequest("listen_message", NoConfig, NoAppMessage))
    /\ UNCHANGED <<appConnection, appMessages, currentInput, inputMode, connectionForm,
                   listenersInitialized, listeners, lastMessageId>>

\* the first listen() resolved: the message listener is registered and the
\* second listen() is awaited
listen_message_registered(r) ==
    /\ r \in AInFlight("listen_message")
    /\ listeners' = [listeners EXCEPT !.message = @ + 1]
    /\ apending' = (apending (-) SetToBag({r}))
                     (+) SetToBag({[r EXCEPT !.cmd = "listen_status"]})
    /\ UNCHANGED <<appConnection, appMessages, currentInput, inputMode, connectionForm,
                   listenersInitialized, lastMessageId>>

\* the second listen() resolved: the status listener is registered and the
\* flag is set
listen_status_registered(r) ==
    /\ r \in AInFlight("listen_status")
    /\ listeners' = [listeners EXCEPT !.status = @ + 1]
    /\ listenersInitialized' = TRUE
    /\ ASettle(r)
    /\ UNCHANGED <<appConnection, appMessages, currentInput, inputMode, connectionForm,
                   lastMessageId>>

\* a listen() call rejected: the catch block logs and the flag stays unset
listen_rejected(r) ==
    /\ r \in AInFlight("listen_message") \cup AInFlight("listen_status")
    /\ ASettle(r)
    /\ UNCHANGED <<appConnection, appMessages, currentInput, inputMode, connectionForm,
                   listenersInitialized, listeners, lastMessageId>>

\* one run of the terminal-message-received listener on the log and
\* lastMessageId; a payload without id gets a fresh one
OnMessageReceived(st, backendMessage) ==
    LET hasId == backendMessage.id # NULL /\ backendMessage.id # ""
        messageId == IF hasId THEN backendMessage.id ELSE UUID
    IN IF hasId /\ messageId = st.lastMessageId
       THEN st
       ELSE [messages |-> Append(st.messages,
                                 [id |-> messageId, direction |-> "received",
                                  content |-> backendMessage.content, type |-> "text"]),
             lastMessageId |-> messageId]

\* every registered listener runs on the event, one after the other
RECURSIVE Deliver(_, _, _)
Deliver(st, backendMessage, n) ==
    IF n = 0 THEN st ELSE Deliver(OnMessageReceived(st, backendMessage), backendMessage, n - 1)

\* the backend emits terminal-message-received
terminal_message_received(backendMessage) ==
    /\ listeners.message > 0
    /\ LET st == Deliver([messages |-> appMessages, lastMessageId |-> lastMessageId],
                         backendMessage, listeners.message)
       IN /\ appMessages' = st.messages
          /\ lastMessageId' = st.lastMessageId
    /\ UNCHANGED <<appConnection, currentInput, inputMode, connectionForm,
                   listenersInitialized, listeners, apending>>

\* the backend emits connection-status-changed with payload [status, info]
connection_status_changed(status, info) ==
    /\ listeners.status > 0
    /\ appConnection' =
         IF status = "connected"
         THEN [appConnection EXCEPT !.isConnected = TRUE, !.error = NULL]
         ELSE IF status = "disconnected"
         THEN [appConnection EXCEPT !.isConnected = FALSE, !.config = NoConfig]
         ELSE IF status = "error"
         THEN [appConnection EXCEPT !.error = info, !.isConnecting = FALSE]
         ELSE appConnection
    /\ UNCHANGED <<appMessages, currentInput, inputMode, connectionForm,
                   listenersInitialized, listeners, lastMessageId, apending>>

\* ------------------------------------------------------------------------
\* TerminalInput.svelte and the hex helper of utils.  A string is the
\* sequence of its UTF-16 code units.
\* ------------------------------------------------------------------------
\* what \s and String.prototype.trim take for white space, below 256
RegexSpace == {9, 10, 11, 12, 13, 32, 160}

\* [0-9A-Fa-f]
HexDigits == (48..57) \cup (65..70) \cup (97..102)

HexValue(c) ==
    IF c \in 48..57 THEN c - 48 ELSE IF c \in 65..70 THEN c - 55 ELSE c - 87

\* parseInt(hex, 16) of two hex digits
parseInt16(hex) == 16 * HexValue(hex[1]) + HexValue(hex[2])

\* substr(i, 2), i counted from 0
Substr2(s, i) == SubSeq(s, i + 1, IF i + 2 <= Len(s) THEN i + 2 ELSE Len(s))

LineEndings == {"None", "CR", "LF", "CRLF"}

\* texts typed into the input field: the empty text, "41 42-43:44", "414",
\* and every text of up to MaxInputLen characters among "4", "1", "f", " ",
\* "-", ":", "G" and the line feed Ctrl+Enter inserts
InputAlphabet == {52, 49, 102, 32, 45, 58, 71, 10}

HexExample == <<52, 49, 32, 52, 50, 45, 52, 51, 58, 52, 52>>

InputTexts ==
    {HexExample, <<52, 49, 52>>}
        \cup UNION {[1..n -> InputAlphabet] : n \in 0..MaxInputLen}

\* the send_message request of the component, with what the call was made of
IRequest(message, messageToSend) ==
    [cmd |-> "send_message", message |-> message, messageToSend |-> messageToSend,
     inputText |-> inputText, hexMode |-> hexMode, lineEnding |-> lineEnding]

NotCalled == [called |-> FALSE, hex |-> <<>>, value |-> <<>>]

NotDisplayed ==
    [called |-> FALSE,
     request |-> [cmd |-> "send_message", message |-> <<>>, messageToSend |-> <<>>,
                  inputText |-> <<>>, hexMode |-> FALSE, lineEnding |-> "None"],
     value |-> <<>>]

InputInit ==
    /\ inputText = <<>>
    /\ hexMode = FALSE
    /\ lineEnding = "CRLF"
    /\ isSending = FALSE
    /\ isConnected = FALSE
    /\ ipending = EmptyBag
    /\ notified = NULL
    /\ hexResult = NotCalled
    /\ displayed = NotDisplayed

\* appendLineEnding falling back to CRLF, the line ending the component
\* starts with, when none is selected
appendLineEnding_default(text) ==
    CASE lineEnding = "CR" -> text \o <<13>>
      [] lineEnding = "LF" -> text \o <<10>>
      [] OTHER -> text \o <<13, 10>>

\* appendLineEnding with the two characters of CRLF in the other order
appendLineEnding_lfcr(text) ==
    CASE lineEnding = "CR" -> text \o <<13>>
      [] lineEnding = "LF" -> text \o <<10>>
      [] lineEnding = "CRLF" -> text \o <<10, 13>>
      [] OTHER -> text

appendLineEnding(text) ==
    CASE lineEnding = "CR" -> text \o <<13>>
      [] lineEnding = "LF" -> text \o <<10>>
      [] lineEnding = "CRLF" -> text \o <<13, 10>>
      [] OTHER -> text

\* parseHexInput without the test hex.length === 2: parseInt of the last
\* digit alone becomes a byte
parseHexInput_keepnibble(hexString) ==
    LET cleanHex == SelectSeq(hexString, LAMBDA c : c \notin RegexSpace \cup {45, 58})
        RECURSIVE Loop(_, _)
        Loop(i, bytes) ==
            IF i < Len(cleanHex)
            THEN LET hex == Substr2(cleanHex, i)
                 IN Loop(i + 2, IF Len(hex) = 2 THEN Append(bytes, parseInt16(hex))
                                ELSE Append(bytes, HexValue(hex[1])))
            ELSE bytes
    IN IF \E i \in 1..Len(cleanHex) : cleanHex[i] \notin HexDigits
       THEN [text |-> hexString, error |-> TRUE]
       ELSE [text |-> Loop(0, <<>>), error |-> FALSE]

\* parseHexInput with the dash missing from the characters it removes
parseHexInput_keepdash(hexString) ==
    LET cleanHex == SelectSeq(hexString, LAMBDA c : c \notin RegexSpace \cup {58})
        RECURSIVE Loop(_, _)
        Loop(i, bytes) ==
            IF i < Len(cleanHex)
            THEN LET hex == Substr2(cleanHex, i)
                 IN Loop(i + 2, IF Len(hex) = 2 THEN Append(bytes, parseInt16(hex))
                                ELSE bytes)
            ELSE bytes
    IN IF \E i \in 1..Len(cleanHex) : cleanHex[i] \notin HexDigits
       THEN [text |-> hexString, error |-> TRUE]
       ELSE [text |-> Loop(0, <<>>), error |-> FALSE]

\* parseHexInput(hexString): the string it returns, and whether it has
\* called notifications.error
parseHexInput(hexString) ==
    LET cleanHex == SelectSeq(hexString, LAMBDA c : c \notin RegexSpace \cup {45, 58})
        RECURSIVE Loop(_, _)
        Loop(i, bytes) ==
            IF i < Len(cleanHex)
            THEN LET hex == Substr2(cleanHex, i)
                 IN Loop(i + 2, IF Len(hex) = 2 THEN Append(bytes, parseInt16(hex))
                                ELSE bytes)
            ELSE bytes
    IN IF \E i \in 1..Len(cleanHex) : cleanHex[i] \notin HexDigits
       THEN [text |-> hexString, error |-> TRUE]
       ELSE [text |-> Loop(0, <<>>), error |-> FALSE]

\* hexToString(hex): replace(/[^0-9A-Fa-f]/g, '') and then replace(/.{2}/g, ...),
\* which leaves what no pair of characters matches where it is
hexToString(hex) ==
    LET digits == SelectSeq(hex, LAMBDA c : c \in HexDigits)
        RECURSIVE Replace(_)
        Replace(rest) ==
            IF Len(rest) >= 2
            THEN <<parseInt16(SubSeq(rest, 1, 2))>> \o Replace(SubSeq(rest, 3, Len(rest)))
            ELSE rest
    IN Replace(digits)

\* sendMessage() of the component, up to the await of invoke('send_message')
TerminalInput_sendMessage ==
    IF (\A i \in 1..Len(inputText) : inputText[i] \in RegexSpace)
          \/ ~isConnected \/ isSending
    THEN UNCHANGED inputVars
    ELSE LET parsed == IF hexMode THEN parseHexInput(inputText)
                       ELSE [text |-> inputText, error |-> FALSE]
             messageToSend == parsed.text
             finalMessage == appendLineEnding(messageToSend)
         IN /\ isSending' = TRUE
            /\ notified' = IF parsed.error THEN "input error" ELSE notified
            /\ ipending' = ipending (+) SetToBag({IRequest(finalMessage, messageToSend)})
            /\ UNCHANGED <<inputText, hexMode, lineEnding, isConnected, hexResult, displayed>>

\* response.success: the text goes to the command history of the terminal
\* store and the input is cleared; finally isSending = false
TerminalInput_sendMessage_success(r) ==
    /\ r \in DOMAIN ipending
    /\ inputText' = <<>>
    /\ isSending' = FALSE
    /\ ipending' = ipending (-) SetToBag({r})
    /\ UNCHANGED <<hexMode, lineEnding, isConnected, notified, hexResult, displayed>>

\* a failure response or a rejected invoke: an error notification
TerminalInput_sendMessage_error(r, outcome) ==
    /\ r \in DOMAIN ipending
    /\ outcome \in {"fail", "throw"}
    /\ notified' = "send error"
    /\ isSending' = FALSE
    /\ ipending' = ipending (-) SetToBag({r})
    /\ UNCHANGED <<inputText, hexMode, lineEnding, isConnected, hexResult, displayed>>

\* a call of hexToString on the text of the input field
hexToString_call ==
    /\ hexResult' = [called |-> TRUE, hex |-> inputText, value |-> hexToString(inputText)]
    /\ UNCHANGED <<inputText, hexMode, lineEnding, isSending, isConnected, ipending,
                   notified, displayed>>

\* text.replace(/c/g, replacement) for one character c
ReplaceAll(text, c, replacement) ==
    LET RECURSIVE Go(_)
        Go(rest) ==
            IF rest = <<>> THEN <<>>
            ELSE IF Head(rest) = c THEN replacement \o Go(Tail(rest))
            ELSE <<Head(rest)>> \o Go(Tail(rest))
    IN Go(text)

\* text.replace(/\r\n/g, replacement)
ReplaceAllCRLF(text, replacement) ==
    LET RECURSIVE Go(_)
        Go(rest) ==
            IF rest = <<>> THEN <<>>
            ELSE IF Len(rest) >= 2 /\ rest[1] = 13 /\ rest[2] = 10
            THEN replacement \o Go(Tail(Tail(rest)))
            ELSE <<Head(rest)>> \o Go(Tail(rest))
    IN Go(text)

\* getMessageDisplayContent(message): the four replacements one after the
\* other; 8629 is the glyph for a line break, 8594 the glyph for a tab
getMessageDisplayContent(content) ==
    LET crlf == ReplaceAllCRLF(content, <<8629, 10>>)
        cr   == ReplaceAll(crlf, 13, <<8629>>)
        lf   == ReplaceAll(cr, 10, <<8629, 10>>)
    IN ReplaceAll(lf, 9, <<8594>>)

\* the device echoes a message sent and the terminal displays it
getMessageDisplayContent_call(r) ==
    /\ r \in DOMAIN ipending
    /\ displayed' = [called |-> TRUE, request |-> r,
                     value |-> getMessageDisplayContent(r.message)]
    /\ UNCHANGED <<inputText, hexMode, lineEnding, isSending, isConnected, ipending,
                   notified, hexResult>>

\* histories the backend returns to loadCommandHistory: the backend keeps
\* its own command history within its capacity
BackendMaxSize == 100

FullHistory == [i \in 1..BackendMaxSize |-> IF i % 2 = 1 THEN LS ELSE PWD]

HistLoads == {<<>>, <<LS>>, <<LS, LS>>, <<PWD, LS>>, FullHistory}

ShortHistLoads == UNION {[1..n -> {LS, PWD}] : n \in 0..MaxNavLen}

\* ------------------------------------------------------------------------
\* The reconnection fields of the TCP form (TcpConfig.svelte) and the panel
\* that owns the configuration handed to connect_device.  What is typed is a
\* sequence of UTF-16 code units; 48..57 are the digits, 45 is '-'.
\* ------------------------------------------------------------------------
\* currentConfig.tcp_config as the panel constructs it
TcpInit ==
    tcp_config = [auto_reconnect |-> FALSE,
                  reconnect_interval_sec |-> 5,
                  max_reconnect_attempts |-> 3]

\* the decimal text of a natural number, as the number field holds it
RECURSIVE Decimal(_)
Decimal(n) ==
    IF n < 10 THEN <<48 + n>> ELSE Decimal(n \div 10) \o <<48 + (n % 10)>>

\* the value of a number field: empty, or the text of a whole number
TypedValues == {<<>>, <<45, 49>>} \cup {Decimal(n) : n \in 0..MaxTyped}

\* parseInt(value): an optional sign, then the longest run of digits; NaN
\* when there is no digit
parseInt(value) ==
    LET negative == Len(value) > 0 /\ value[1] = 45
        rest == IF negative THEN Tail(value) ELSE value
        RECURSIVE Digits(_, _)
        Digits(i, acc) ==
            IF i > Len(rest) \/ rest[i] \notin 48..57 THEN acc
            ELSE Digits(i + 1, acc * 10 + (rest[i] - 48))
    IN  IF Len(rest) = 0 \/ rest[1] \notin 48..57
        THEN [nan |-> TRUE, number |-> 0]
        ELSE [nan |-> FALSE,
              number |-> IF negative THEN 0 - Digits(1, 0) ELSE Digits(1, 0)]

\* parsed || fallback: NaN and 0 are falsy
OrElse(parsed, fallback) ==
    IF parsed.nan \/ parsed.number = 0 THEN fallback ELSE parsed.number

\* handleTcpConfigChange(newConfig): the panel takes the new configuration
handleTcpConfigChange(newConfig) == tcp_config' = newConfig

\* updateConfig(key, value): a copy with one field replaced goes to the panel
updateConfig(key, value) ==
    handleTcpConfigChange([tcp_config EXCEPT ![key] = value])

\* the auto-reconnect checkbox changes
auto_reconnect_change(checked) == updateConfig("auto_reconnect", checked)

\* input in the reconnect-interval field, shown while auto_reconnect is set
reconnect_interval_input(value) ==
    /\ tcp_config.auto_reconnect
    /\ updateConfig("reconnect_interval_sec", OrElse(parseInt(value), 5))

\* input in the max-reconnect field, shown while auto_reconnect is set
max_reconnect_input(value) ==
    /\ tcp_config.auto_reconnect
    /\ updateConfig("max_reconnect_attempts", OrElse(parseInt(value), 3))

\* ------------------------------------------------------------------------
\* The connection manager of the backend, on a TCP session: the state
\* machine and the reconnection policy of the specification (sections 4.1,
\* 4.2 and 7); the backend's code is not among the sources.
\* ------------------------------------------------------------------------
ReconnectExhaustedError == "ReconnectExhaustedError"

UnexpectedClose == "UnexpectedClose"

\* the reconnection fields of a Tcp configuration
ReconnectConfigs ==
    [auto_reconnect : BOOLEAN,
     reconnect_interval_sec : 1..MaxInterval,
     max_reconnect_attempts : 0..MaxAttempts]

\* a manager in the given status, nothing retried and nothing lost so far
Manager(status, tcp) ==
    [status |-> status, error |-> NULL, config |-> tcp,
     attempts |-> 0,     \* retries made for this session
     closes |-> 0,       \* unexpected losses of the transport, in a row
     timer |-> 0]        \* seconds left before the pending retry

\* no session: Disconnected
ManagerInit ==
    manager = Manager("Disconnected",
                      [auto_reconnect |-> FALSE, reconnect_interval_sec |-> 5,
                       max_reconnect_attempts |-> 3])

\* another retry is allowed: 0 attempts means unlimited
MayRetry_inclusive(m) ==
    /\ m.config.auto_reconnect
    /\ m.config.max_reconnect_attempts = 0
         \/ m.attempts <= m.config.max_reconnect_attempts

MayRetry(m) ==
    /\ m.config.auto_reconnect
    /\ m.config.max_reconnect_attempts = 0
         \/ m.attempts < m.config.max_reconnect_attempts

\* the session is lost: retry after the interval, or give up
AfterLoss(m) ==
    LET lost == [m EXCEPT !.closes = @ + 1] IN
    IF MayRetry(m)
    THEN [lost EXCEPT !.status = "Connecting",
                      !.timer = m.config.reconnect_interval_sec]
    ELSE IF m.config.auto_reconnect
    THEN [lost EXCEPT !.status = "Error", !.error = ReconnectExhaustedError]
    ELSE [lost EXCEPT !.status = "Disconnected", !.error = UnexpectedClose]

\* the transport closes under a connected session (read error, keep-alive)
unexpected_close ==
    /\ manager.status = "Connected"
    /\ manager.closes < MaxCloses
    /\ manager' = AfterLoss(manager)

\* a second of the wait between attempts passes
backoff_tick ==
    /\ manager.status = "Connecting"
    /\ manager.timer > 0
    /\ manager' = [manager EXCEPT !.timer = @ - 1]

\* the wait is over and the transport is opened again
retry_open(ok) ==
    /\ manager.status = "Connecting"
    /\ manager.timer = 0
    /\ ok \/ manager.closes < MaxCloses
    /\ LET tried == [manager EXCEPT !.attempts = @ + 1] IN
       manager' = IF ok THEN [tried EXCEPT !.status = "Connected"]
                  ELSE AfterLoss(tried)

\* Error --> Disconnected, the error staying with the manager
error_settles ==
    /\ manager.status = "Error"
    /\ manager' = [manager EXCEPT !.status = "Disconnected"]

\* disconnect(): a no-op when Disconnected, else the transport is closed and
\* a pending retry cancelled
manager_disconnect ==
    manager' = IF manager.status = "Disconnected" THEN manager
               ELSE [manager EXCEPT !.status = "Disconnected", !.timer = 0]

\* ------------------------------------------------------------------------
\* Specifications.  The three stores share no state, so each is followed on
\* its own while the other two stay as constructed.
\* ------------------------------------------------------------------------
Init == ConnInit /\ TermInit /\ AppInit /\ InputInit /\ TcpInit /\ ManagerInit /\ PortsInit

ConnOnly == UNCHANGED <<termVars, appVars, inputVars, tcpVars, mgrVars, portVars>>

TermOnly == UNCHANGED <<connVars, appVars, inputVars, tcpVars, mgrVars, portVars, appended, delivered>>

\* the application store, followed while appState.messages is short
AppOnly ==
    Len(appMessages') <= MaxAppMessages /\ UNCHANGED <<connVars, termVars, inputVars, tcpVars, mgrVars, portVars>>

\* the connection store
NextConn ==
    \/ \E cfg \in Configs : connect(cfg) /\ ConnOnly
    \/ \E r \in DOMAIN pending : connect_success(r) /\ ConnOnly
    \/ \E r \in DOMAIN pending, o \in Outcomes : connect_error(r, o) /\ ConnOnly
    \/ \E r \in DOMAIN pending : setActiveProfile_success(r) /\ ConnOnly
    \/ \E r \in DOMAIN pending, o \in Outcomes : setActiveProfile_error(r, o) /\ ConnOnly
    \/ disconnect /\ ConnOnly
    \/ \E r \in DOMAIN pending : disconnect_success(r) /\ ConnOnly
    \/ \E r \in DOMAIN pending, o \in Outcomes : disconnect_error(r, o) /\ ConnOnly
    \/ sendMessage /\ ConnOnly
    \/ \E r \in DOMAIN pending : sendMessage_success(r) /\ ConnOnly
    \/ \E r \in DOMAIN pending, o \in Outcomes : sendMessage_error(r, o) /\ ConnOnly
    \/ checkConnectionStatus /\ ConnOnly
    \/ \E r \in DOMAIN pending, data \in BOOLEAN :
         checkConnectionStatus_success(r, data) /\ ConnOnly
    \/ \E r \in DOMAIN pending : checkConnectionStatus_error(r) /\ ConnOnly
    \/ clearError /\ ConnOnly

SpecConn == Init /\ [][NextConn]_vars

\* the connection store under the three operations that show isLoading
PortsOnly == UNCHANGED <<termVars, appVars, inputVars, tcpVars, mgrVars>>

NextLoading ==
    \/ refreshPorts /\ PortsOnly
    \/ \E r \in DOMAIN pending, data \in PortLists :
         refreshPorts_success(r, data) /\ PortsOnly
    \/ \E r \in DOMAIN pending, o \in Outcomes : refreshPorts_error(r, o) /\ PortsOnly
    \/ \E cfg \in Configs : connect(cfg) /\ ConnOnly
    \/ \E r \in DOMAIN pending : connect_success(r) /\ ConnOnly
    \/ \E r \in DOMAIN pending, o \in Outcomes : connect_error(r, o) /\ ConnOnly
    \/ \E r \in DOMAIN pending : setActiveProfile_success(r) /\ ConnOnly
    \/ \E r \in DOMAIN pending, o \in Outcomes : setActiveProfile_error(r, o) /\ ConnOnly
    \/ disconnect /\ ConnOnly
    \/ \E r \in DOMAIN pending : disconnect_success(r) /\ ConnOnly
    \/ \E r \in DOMAIN pending, o \in Outcomes : disconnect_error(r, o) /\ ConnOnly

SpecLoading == Init /\ [][NextLoading]_vars

\* the backend answers a request of the connection store
ConnAnswered ==
    \/ \E r \in DOMAIN pending : connect_success(r) /\ ConnOnly
    \/ \E r \in DOMAIN pending, o \in Outcomes : connect_error(r, o) /\ ConnOnly
    \/ \E r \in DOMAIN pending : setActiveProfile_success(r) /\ ConnOnly
    \/ \E r \in DOMAIN pending, o \in Outcomes : setActiveProfile_error(r, o) /\ ConnOnly
    \/ \E r \in DOMAIN pending : disconnect_success(r) /\ ConnOnly
    \/ \E r \in DOMAIN pending, o \in Outcomes : disconnect_error(r, o) /\ ConnOnly
    \/ \E r \in DOMAIN pending : sendMessage_success(r) /\ ConnOnly
    \/ \E r \in DOMAIN pending, o \in Outcomes : sendMessage_error(r, o) /\ ConnOnly
    \/ \E r \in DOMAIN pending, data \in BOOLEAN :
         checkConnectionStatus_success(r, data) /\ ConnOnly
    \/ \E r \in DOMAIN pending : checkConnectionStatus_error(r) /\ ConnOnly

\* the connection store with every awaited request answered in the end; the
\* calls of the store are made by the user and are under no obligation
SpecConnFair == Init /\ [][NextConn]_vars /\ WF_vars(ConnAnswered)

\* the terminal store: configuration, message log and search
NextTerm ==
    \/ loadConfig /\ TermOnly
    \/ \E r \in DOMAIN tpending, size \in Capacities : loadConfig_success(r, size) /\ TermOnly
    \/ \E r \in DOMAIN tpending : loadConfig_error(r) /\ TermOnly
    \/ \E size \in Capacities : saveConfig(size) /\ TermOnly
    \/ \E r \in DOMAIN tpending : saveConfig_success(r) /\ TermOnly
    \/ \E r \in DOMAIN tpending : saveConfig_error(r) /\ TermOnly
    \/ loadMessages /\ TermOnly
    \/ \E r \in DOMAIN tpending, data \in LoadedLogs :
         \* the backend keeps its log within the configured capacity
         Len(data) <= config.max_history_size /\ loadMessages_success(r, data) /\ TermOnly
    \/ \E r \in DOMAIN tpending : loadMessages_error(r) /\ TermOnly
    \/ \E message \in TermMessages :
         Len(messages) < MaxLogLen /\ addMessage(message) /\ TermOnly
    \/ \E r \in DOMAIN tpending : addMessage_success(r) /\ TermOnly
    \/ \E r \in DOMAIN tpending : addMessage_error(r) /\ TermOnly
    \/ clearMessages /\ TermOnly
    \/ \E r \in DOMAIN tpending : clearMessages_success(r) /\ TermOnly
    \/ \E r \in DOMAIN tpending : clearMessages_error(r) /\ TermOnly
    \/ \E query \in Queries : setSearchQuery(query) /\ TermOnly

SpecTerm == Init /\ [][NextTerm]_vars

\* the message log filled from empty under one capacity
InitLog ==
    /\ ConnInit /\ AppInit /\ InputInit /\ TcpInit /\ ManagerInit /\ PortsInit
    /\ \E size \in Capacities : TermInitial(size)

NextLog ==
    \/ \E message \in TermMessages :
         /\ Len(appended) + BagCardinality(tpending) < MaxAppended
         /\ addMessage(message)
         /\ UNCHANGED <<connVars, appVars, inputVars, tcpVars, mgrVars, portVars, appended, delivered>>
    \/ \E r \in DOMAIN tpending :
         /\ addMessage_success(r)
         /\ appended' = Append(appended, r.message)
         /\ UNCHANGED <<connVars, appVars, inputVars, tcpVars, mgrVars, portVars, delivered>>
    \/ \E r \in DOMAIN tpending : addMessage_error(r) /\ TermOnly

SpecLog == InitLog /\ [][NextLog]_vars

\* the message log fed by the terminal-message-received listener, each
\* event carrying a message of its own
NextArrive ==
    \/ \E message \in TermMessages :
         /\ \A i \in 1..Len(delivered) : delivered[i] # message
         /\ addMessage(message)
         /\ delivered' = Append(delivered, message)
         /\ UNCHANGED <<connVars, appVars, inputVars, tcpVars, mgrVars, portVars, appended>>
    \/ \E r \in DOMAIN tpending : addMessage_success(r) /\ TermOnly
    \/ \E r \in DOMAIN tpending : addMessage_error(r) /\ TermOnly
    \/ clearMessages /\ TermOnly
    \/ \E r \in DOMAIN tpending : clearMessages_success(r) /\ TermOnly
    \/ \E r \in DOMAIN tpending : clearMessages_error(r) /\ TermOnly

SpecArrive == Init /\ [][NextArrive]_vars

\* the message log under appends and searches
NextSearch ==
    \/ \E message \in TermMessages :
         Len(messages) < MaxLogLen /\ addMessage(message) /\ TermOnly
    \/ \E r \in DOMAIN tpending : addMessage_success(r) /\ TermOnly
    \/ \E r \in DOMAIN tpending : addMessage_error(r) /\ TermOnly
    \/ \E query \in Queries : setSearchQuery(query) /\ TermOnly

SpecSearch == Init /\ [][NextSearch]_vars

\* the command history under push alone
NextPush ==
    \/ \E command \in Commands : addCommandToHistory(command) /\ TermOnly
    \/ \E r \in DOMAIN tpending : addCommandToHistory_success(r) /\ TermOnly
    \/ \E r \in DOMAIN tpending : addCommandToHistory_error(r) /\ TermOnly

SpecPush == Init /\ [][NextPush]_vars

\* the command history under push and loadCommandHistory
NextHist ==
    \/ \E command \in Commands : addCommandToHistory(command) /\ TermOnly
    \/ \E r \in DOMAIN tpending : addCommandToHistory_success(r) /\ TermOnly
    \/ \E r \in DOMAIN tpending : addCommandToHistory_error(r) /\ TermOnly
    \/ loadCommandHistory /\ TermOnly
    \/ \E r \in DOMAIN tpending, data \in HistLoads :
         loadCommandHistory_success(r, data) /\ TermOnly
    \/ \E r \in DOMAIN tpending : loadCommandHistory_error(r) /\ TermOnly

SpecHist == Init /\ [][NextHist]_vars

\* the command history with navigation, on short histories
NextNav ==
    \/ \E command \in Commands :
         /\ Len(commandHistory.commands) < MaxNavLen
         /\ addCommandToHistory(command)
         /\ TermOnly
    \/ \E r \in DOMAIN tpending : addCommandToHistory_success(r) /\ TermOnly
    \/ \E r \in DOMAIN tpending : addCommandToHistory_error(r) /\ TermOnly
    \/ loadCommandHistory /\ TermOnly
    \/ \E r \in DOMAIN tpending, data \in ShortHistLoads :
         loadCommandHistory_success(r, data) /\ TermOnly
    \/ \E r \in DOMAIN tpending : loadCommandHistory_error(r) /\ TermOnly
    \/ getPreviousCommand /\ TermOnly
    \/ getNextCommand /\ TermOnly

SpecNav == Init /\ [][NextNav]_vars

\* a call of the application store is started while few requests are in flight
AppCall == BagCardinality(apending) < MaxInFlight

\* the application store: connecting and disconnecting
NextAppConn ==
    \/ \E form \in AppForms : setConnectionForm(form) /\ AppOnly
    \/ AppCall /\ actions_connect /\ AppOnly
    \/ \E r \in DOMAIN apending : actions_connect_success(r) /\ AppOnly
    \/ \E r \in DOMAIN apending, o \in Outcomes : actions_connect_error(r, o) /\ AppOnly
    \/ AppCall /\ actions_disconnect /\ AppOnly
    \/ \E r \in DOMAIN apending, o \in Outcomes : actions_disconnect_settled(r, o) /\ AppOnly
    \/ actions_clearMessages /\ AppOnly
    \/ AppCall /\ ListenersStarted < MaxListeners /\ initializeEventListeners /\ AppOnly
    \/ \E r \in DOMAIN apending : listen_message_registered(r) /\ AppOnly
    \/ \E r \in DOMAIN apending : listen_status_registered(r) /\ AppOnly
    \/ \E r \in DOMAIN apending : listen_rejected(r) /\ AppOnly
    \/ \E status \in {"connected", "disconnected", "error"} :
         connection_status_changed(status, BackendError) /\ AppOnly

SpecAppConn == Init /\ [][NextAppConn]_vars

\* the application store connecting, with the status listener registered
\* once and the backend answering every connect_device
NextAppConnecting ==
    \/ \E form \in AppForms : setConnectionForm(form) /\ AppOnly
    \/ AppCall /\ actions_connect /\ AppOnly
    \/ \E r \in DOMAIN apending : actions_connect_success(r) /\ AppOnly
    \/ \E r \in DOMAIN apending, o \in Outcomes : actions_connect_error(r, o) /\ AppOnly
    \/ actions_clearMessages /\ AppOnly
    \/ ListenersStarted < 1 /\ initializeEventListeners /\ AppOnly
    \/ \E r \in DOMAIN apending : listen_message_registered(r) /\ AppOnly
    \/ \E r \in DOMAIN apending : listen_status_registered(r) /\ AppOnly
    \/ \E status \in {"connected", "disconnected", "error"} :
         connection_status_changed(status, BackendError) /\ AppOnly

\* the backend answers a connect_device
ConnectAnswered ==
    /\ \/ \E r \in DOMAIN apending : actions_connect_success(r)
       \/ \E r \in DOMAIN apending, o \in Outcomes : actions_connect_error(r, o)
    /\ AppOnly

SpecAppConnecting ==
    Init /\ [][NextAppConnecting]_vars /\ WF_vars(ConnectAnswered)

\* the application store: sending and receiving on a session the backend
\* reports as connected or disconnected
NextAppSend ==
    \/ \E input \in AppInputs, mode \in {"text", "hex"} :
         setCurrentInput(input, mode) /\ AppOnly
    \/ AppCall /\ actions_sendMessage /\ AppOnly
    \/ \E r \in DOMAIN apending : actions_sendMessage_success(r) /\ AppOnly
    \/ \E r \in DOMAIN apending, o \in Outcomes : actions_sendMessage_error(r, o) /\ AppOnly
    \/ actions_clearMessages /\ AppOnly
    \/ AppCall /\ ListenersStarted < MaxListeners /\ initializeEventListeners /\ AppOnly
    \/ \E r \in DOMAIN apending : listen_message_registered(r) /\ AppOnly
    \/ \E r \in DOMAIN apending : listen_status_registered(r) /\ AppOnly
    \/ \E r \in DOMAIN apending : listen_rejected(r) /\ AppOnly
    \/ \E m \in BackendMessages : terminal_message_received(m) /\ AppOnly
    \/ \E status \in {"connected", "disconnected"} :
         connection_status_changed(status, BackendError) /\ AppOnly

SpecAppSend == Init /\ [][NextAppSend]_vars

\* the application store receiving messages: the listeners are set up once
\* and the backend emits terminal-message-received events carrying an id
NextAppLog ==
    \/ /\ ListenersStarted < 1
       /\ initializeEventListeners
       /\ UNCHANGED <<connVars, termVars, inputVars, tcpVars, mgrVars, portVars>>
    \/ \E r \in DOMAIN apending :
         listen_message_registered(r) /\ UNCHANGED <<connVars, termVars, inputVars, tcpVars, mgrVars, portVars>>
    \/ \E r \in DOMAIN apending :
         listen_status_registered(r) /\ UNCHANGED <<connVars, termVars, inputVars, tcpVars, mgrVars, portVars>>
    \/ \E m \in {b \in BackendMessages : b.id # NULL} :
         /\ Len(appMessages) <= DefaultCapacity
         /\ terminal_message_received(m)
         /\ UNCHANGED <<connVars, termVars, inputVars, tcpVars, mgrVars, portVars>>

SpecAppLog == Init /\ [][NextAppLog]_vars

\* the input component with a text typed, a mode and a line ending chosen
InitInput ==
    /\ ConnInit /\ TermInit /\ AppInit /\ TcpInit /\ ManagerInit /\ PortsInit
    /\ inputText \in InputTexts
    /\ hexMode \in BOOLEAN
    /\ lineEnding \in LineEndings
    /\ isConnected \in BOOLEAN
    /\ isSending = FALSE
    /\ ipending = EmptyBag
    /\ notified = NULL
    /\ hexResult = NotCalled
    /\ displayed = NotDisplayed

InputOnly == UNCHANGED <<connVars, termVars, appVars, tcpVars, mgrVars, portVars>>

NextInput ==
    \/ TerminalInput_sendMessage /\ InputOnly
    \/ \E r \in DOMAIN ipending : TerminalInput_sendMessage_success(r) /\ InputOnly
    \/ \E r \in DOMAIN ipending, o \in Outcomes :
         TerminalInput_sendMessage_error(r, o) /\ InputOnly
    \/ hexToString_call /\ InputOnly
    \/ \E r \in DOMAIN ipending : getMessageDisplayContent_call(r) /\ InputOnly

SpecInput == InitInput /\ [][NextInput]_vars

\* the reconnection fields of the TCP form alone
TcpOnly == UNCHANGED <<connVars, termVars, appVars, inputVars, mgrVars, portVars>>

NextTcp ==
    \/ \E checked \in BOOLEAN : auto_reconnect_change(checked) /\ TcpOnly
    \/ \E value \in TypedValues : reconnect_interval_input(value) /\ TcpOnly
    \/ \E value \in TypedValues : max_reconnect_input(value) /\ TcpOnly

SpecTcp == Init /\ [][NextTcp]_vars

\* a connected TCP session under every reconnection policy
InitReconnect ==
    /\ ConnInit /\ TermInit /\ AppInit /\ InputInit /\ TcpInit /\ PortsInit
    /\ \E tcp \in ReconnectConfigs : manager = Manager("Connected", tcp)

ManagerOnly == UNCHANGED <<connVars, termVars, appVars, inputVars, tcpVars, portVars>>

NextReconnect ==
    \/ unexpected_close /\ ManagerOnly
    \/ backoff_tick /\ ManagerOnly
    \/ \E ok \in BOOLEAN : retry_open(ok) /\ ManagerOnly
    \/ error_settles /\ ManagerOnly
    \/ manager_disconnect /\ ManagerOnly

\* the steps the manager takes by itself: the wait, the retry, settling
ManagerProgress ==
    (backoff_tick \/ (\E ok \in BOOLEAN : retry_open(ok)) \/ error_settles)
        /\ ManagerOnly

SpecReconnect ==
    InitReconnect /\ [][NextReconnect]_vars /\ WF_vars(ManagerProgress)

\* ------------------------------------------------------------------------
\* Claims about the connection store
\* ------------------------------------------------------------------------
\* a step issues a new request of the given Tauri command
Issues(cmd) == NumInFlight(cmd)' > NumInFlight(cmd)

ConnectOnlyWhenIdle ==
    connectionStatus \in {"Connecting", "Connected"} => ~Issues("connect_device")

\* C1: connect(config) called while the status is Connecting or Connected
\* issues no connect_device request (it fails with AlreadyConnected instead),
\* so no second session is opened alongside a live or pending one.
C1_ConnectExclusive == [][ConnectOnlyWhenIdle]_vars

\* the edges of the state machine of section 4.1
DefinedEdges ==
    { <<"Disconnected", "Connecting">>, <<"Connecting", "Connected">>,
      <<"Connecting", "Error">>, <<"Error", "Disconnected">>,
      <<"Connected", "Connecting">>, <<"Connected", "Disconnected">> }

StatusStepOnEdge ==
    connectionStatus' # connectionStatus
        => <<connectionStatus, connectionStatus'>> \in DefinedEdges

\* C2: every change of the connection status follows one of the defined
\* edges of the state machine.
C2_DefinedEdgesOnly == [][StatusStepOnEdge]_vars

SendOnlyWhenConnected ==
    connectionStatus # "Connected" => ~Issues("send_message")

\* C3: send called while the status is not Connected is not forwarded to the
\* transport (no send_message request is issued); it fails with NotConnected.
C3_SendRequiresConnected == [][SendOnlyWhenConnected]_vars

DisconnectWhenDisconnectedIsNoOp ==
    /\ (connectionStatus = "Disconnected" /\ Issues("disconnect_device"))
         => UNCHANGED <<currentConnection, connectionStatus, isLoading, error>>
    /\ (lastResult'.op = "disconnect" /\ lastResult'.at = "Disconnected")
         => lastResult'.outcome = "resolved"

\* C4: disconnect() called while the status is already Disconnected is a
\* no-op success: the call changes nothing in the store, and it returns
\* without error.
C4_DisconnectIdempotent == [][DisconnectWhenDisconnectedIsNoOp]_vars

ConnectWhileConnectedKeepsSession ==
    /\ (connectionStatus = "Connected" /\ Issues("connect_device"))
         => UNCHANGED <<connectionStatus, currentConnection>>
    /\ \A r \in InFlight("connect_device") :
         (r.at = "Connected"
             /\ (connect_success(r) \/ \E o \in Outcomes : connect_error(r, o)))
           => UNCHANGED <<connectionStatus, currentConnection>>

\* C13: connect() called while the status is Connected leaves the existing
\* session untouched: the status stays Connected and currentConnection keeps
\* its value, at the call and when the backend answers, whatever the answer.
C13_ConnectWhileConnectedKeepsSession == [][ConnectWhileConnectedKeepsSession]_vars

OpenFailureGivesError ==
    \A r \in InFlight("connect_device"), o \in {"fail", "throw"} :
        connect_error(r, o) => connectionStatus' = "Error"

\* C17: when opening the transport fails during Connecting the status
\* becomes Error, and from Error it reaches Disconnected: the connection
\* never remains in Error for ever.
C17_ErrorReachesDisconnected ==
    /\ [][OpenFailureGivesError]_vars
    /\ (connectionStatus = "Error") ~> (connectionStatus = "Disconnected")

\* ------------------------------------------------------------------------
\* Claims about the terminal store
\* ------------------------------------------------------------------------
\* C5: in every reachable state of the terminal store the message log holds
\* at most max_history_size messages.
C5_LogWithinCapacity == Len(messages) <= config.max_history_size

\* the last n entries of a sequence, all of it when it is shorter
LastN(s, n) == IF Len(s) > n THEN SubSeq(s, Len(s) - n + 1, Len(s)) ELSE s

\* C6: appending N+k messages to an empty log of capacity N leaves exactly
\* the N most recently appended ones, in the order they were appended.
C6_KeepsMostRecent == messages = LastN(appended, config.max_history_size)

\* capacity 3, five appends: the last three are left, in order
C6_Witness ==
    /\ config.max_history_size = 3
    /\ Len(appended) = 5
    /\ appended[3].id = "m3" /\ appended[4].id = "m1" /\ appended[5].id = "m2"
    /\ [i \in 1..Len(messages) |-> messages[i].id] = <<"m3", "m1", "m2">>

\* C8: after any sequence of push operations the command history never
\* contains two identical adjacent entries.
C8_NoAdjacentDuplicates ==
    \A i \in 1..(Len(commandHistory.commands) - 1) :
        commandHistory.commands[i] # commandHistory.commands[i + 1]

\* push("ls"); push("pwd"); push("ls"); push("ls") leaves three entries
C8_Witness ==
    /\ histResult = [op |-> "push", effect |-> "duplicate", value |-> LS]
    /\ commandHistory.commands = <<LS, PWD, LS>>

NextMovesTowardNewer ==
    getNextCommand =>
        LET history == commandHistory
            newest  == Len(history.commands) - 1
        IN /\ (history.current_index # NoIndex /\ history.current_index < newest)
                => /\ commandHistory'.current_index = history.current_index + 1
                   /\ histResult'.value = history.commands[history.current_index + 2]
           /\ (history.current_index # NoIndex /\ history.current_index = newest)
                => /\ commandHistory'.current_index = NoIndex
                   /\ histResult'.value = <<>>

\* C10: navigate_next moves the cursor one step toward newer entries and
\* returns the entry there; on the newest entry it resets the cursor to
\* None and returns the empty string.
C10_NextMovesTowardNewer == [][NextMovesTowardNewer]_vars

\* navigate_next on the newest of three entries has reset the cursor
C10_Witness ==
    /\ histResult = [op |-> "next", effect |-> "reset", value |-> <<>>]
    /\ commandHistory.current_index = NoIndex
    /\ Len(commandHistory.commands) = 3

\* the call made after i - 1 consecutive calls from a cursor of None finds
\* the cursor at n - i + 1 (None when i = 1), n the number of entries
PreviousMovesTowardOlder ==
    (getPreviousCommand /\ commandHistory.commands # <<>>) =>
        LET history == commandHistory
            n       == Len(history.commands)
        IN /\ commandHistory'.commands = history.commands
           /\ history.current_index = NoIndex
                => /\ commandHistory'.current_index = n - 1
                   /\ histResult'.value = history.commands[n]
           /\ history.current_index \in 1..(n - 1)
                => /\ commandHistory'.current_index = history.current_index - 1
                   /\ histResult'.value = history.commands[history.current_index]
           /\ history.current_index = 0
                => commandHistory'.current_index = 0

\* C11: starting from a cursor of None on a history of n entries, the i-th
\* consecutive navigate_previous (1 <= i <= n) returns the i-th most recent
\* entry and moves the cursor one step toward older entries; calls at the
\* oldest entry do not move the cursor past it.
C11_PreviousMovesTowardOlder == [][PreviousMovesTowardOlder]_vars

\* navigate_previous has been called at the oldest of three entries, which
\* the third call had returned
C11_Witness ==
    /\ histResult = [op |-> "prev", effect |-> "none", value |-> NONE]
    /\ commandHistory.current_index = 0
    /\ Len(commandHistory.commands) = 3

\* the addMessage call made for a received message has completed
Completes(r) == addMessage_success(r) \/ addMessage_error(r)

ReceiveLeavesEntry ==
    \A r \in TInFlight("add_terminal_message") :
        (Completes(r) /\ config.max_history_size > 0)
            => /\ messages' # <<>>
               /\ messages'[Len(messages')] = r.message
               /\ Len(messages') = Len(AppendMessage(messages, r.message,
                                                     config.max_history_size))

\* C14: every message handed to the log (a received message, or the record
\* of a send, successful or failed) is appended at the tail of the log: no
\* receive completes without leaving its entry.
C14_EveryReceiveLogged == [][ReceiveLeavesEntry]_vars

\* position of a message in the order of delivery
Arrival(message) == CHOOSE i \in 1..Len(delivered) : delivered[i] = message

\* C16: the messages of the log are in the order in which their receive
\* events were delivered, also when several addMessage calls are pending at
\* once and their acknowledgements complete in another order.
C16_LogInArrivalOrder ==
    \A i, j \in 1..Len(messages) :
        i < j => Arrival(messages[i]) < Arrival(messages[j])

\* the same letter, whatever the case
SameLetter(a, b) ==
    \/ a = b
    \/ \E i \in 1..Len(UpperCase) :
         {a, b} = {UpperCase[i], LowerCase[i]}

\* the content has q as a substring, compared without regard to case
ContainsIgnoringCase(content, q) ==
    \E start \in 1..(Len(content) - Len(q) + 1) :
        \A k \in 1..Len(q) : SameLetter(content[start + k - 1], q[k])

\* the messages whose content contains q, in their order in the log
Matching(q) == SelectSeq(messages, LAMBDA m : ContainsIgnoringCase(m.content, q))

Blank(q) == \A i \in 1..Len(q) : q[i] \in WhiteSpace

FilterOfNonEmptyQuery ==
    \A q \in Queries :
        setSearchQuery(q) =>
            filteredMessages' = IF q = <<>> THEN messages ELSE Matching(q)

\* C18 as stated: filter with the empty query returns the full log, and every
\* non-empty query q returns exactly the messages whose content contains q
\* without regard to case, in their original order.
C18_FilterOfNonEmptyQuery == [][FilterOfNonEmptyQuery]_vars

FilterOfNonBlankQuery ==
    \A q \in Queries :
        setSearchQuery(q) =>
            filteredMessages' = IF Blank(q) THEN messages ELSE Matching(q)

\* C18 amended: filter with an empty or whitespace-only query returns the
\* full log, and every other query q returns exactly the messages whose
\* content contains q without regard to case, in their original order.
C18_FilterOfNonBlankQuery == [][FilterOfNonBlankQuery]_vars

\* the query "ok" on a log of "OK", "err", "ok 2" has left the two matches
C18_Witness ==
    /\ searchQuery = <<"o", "k">>
    /\ [i \in 1..Len(messages) |-> messages[i].id] = <<"m1", "m2", "m3">>
    /\ [i \in 1..Len(filteredMessages) |-> filteredMessages[i].id] = <<"m1", "m3">>

ClearResetsLogFilterSelection ==
    \A r \in TInFlight("clear_terminal_messages") :
        clearMessages_success(r) =>
            /\ messages' = <<>>
            /\ filteredMessages' = <<>>
            /\ selectedMessages' = {}
            /\ Blank(searchQuery')

\* C19: clear() empties the message log and resets the filter and the
\* selection: afterwards the messages, the filtered view and the selection
\* are empty and no search query is active.
C19_ClearResetsLogFilterSelection == [][ClearResetsLogFilterSelection]_vars

PushOfBlankOrRepeatIsNoOp ==
    /\ \A command \in Commands :
         (Blank(command) /\ addCommandToHistory(command)) => UNCHANGED commandHistory
    /\ \A r \in TInFlight("add_command_to_history") :
         (/\ commandHistory.commands # <<>>
          /\ commandHistory.commands[Len(commandHistory.commands)] = r.command
          /\ addCommandToHistory_success(r)) => UNCHANGED commandHistory

\* C20: push(command) is a no-op when the command is empty or whitespace-only
\* or equals the most recently pushed entry: the stored commands and the
\* navigation cursor are left as they were.
C20_PushOfBlankOrRepeatIsNoOp == [][PushOfBlankOrRepeatIsNoOp]_vars

\* ------------------------------------------------------------------------
\* Claims about the application store
\* ------------------------------------------------------------------------
\* a step issues a new request of the given Tauri command
AIssues(cmd) == ANumInFlight(cmd)' > ANumInFlight(cmd)

\* the configurations section 7 calls invalid
InvalidConfiguration(form) ==
    \/ form.type = "serial" /\ form.serialPort = <<>>
    \/ form.type = "tcp" /\ form.port \notin 1..65535

\* the messages actions.connect records for a rejected form
ConfigurationError == {"select a serial port", "enter host and port correctly"}

InvalidConnectTouchesNothing ==
    (actions_connect /\ InvalidConfiguration(connectionForm)) =>
        /\ ~AIssues("connect_device")
        /\ apending' = apending
        /\ appConnection'.error \in ConfigurationError
        /\ appConnection'.isConnected = appConnection.isConnected
        /\ appConnection'.isConnecting = appConnection.isConnecting
        /\ appConnection'.config = appConnection.config

\* C12: connect with a Serial configuration whose port is empty, or a Tcp
\* configuration whose port is outside 1..65535, ends with a configuration
\* error before any transport is touched: no connect_device request is
\* issued and the connection state is left as it was.
C12_InvalidConfigRejected == [][InvalidConnectTouchesNothing]_vars

\* connect with port 65536 has been rejected while disconnected
C12_Witness ==
    /\ connectionForm = TcpPortHigh
    /\ appConnection = [isConnected |-> FALSE, isConnecting |-> FALSE,
                        config |-> NoConfig, error |-> "enter host and port correctly"]
    /\ apending = EmptyBag

\* C15: sends are serialized: at no time are two send_message requests in
\* flight, from the application store or from the connection store.
C15_SendsSerialized ==
    /\ ANumInFlight("send_message") <= 1
    /\ NumInFlight("send_message") <= 1

\* C7: the length of appState.messages never exceeds the default capacity
\* of 1000, however many messages are received, sent or added.
C7_AppLogWithinCapacity == Len(appMessages) <= DefaultCapacity

\* ------------------------------------------------------------------------
\* Claims about the input component and the hex helper
\* ------------------------------------------------------------------------
\* the hex digits of a text, in their order
DigitsOf(s) == SelectSeq(s, LAMBDA c : c \in HexDigits)

\* the bytes written by the complete pairs of a string of hex digits
PairBytes(digits) ==
    [k \in 1..(Len(digits) \div 2) |->
        16 * HexValue(digits[2 * k - 1]) + HexValue(digits[2 * k])]

\* space, dash and colon
Separators == {32, 45, 58}

HexWithSeparators(s) == \A i \in 1..Len(s) : s[i] \in HexDigits \cup Separators

\* C21: in Hex mode spaces, dashes and colons are stripped before the hex
\* digits are paired into bytes: the payload of a text of hex digits and
\* separators is the bytes of its digits, and "41 42-43:44" with no line
\* ending is sent, and converted by hexToString, as 0x41 0x42 0x43 0x44.
C21_SeparatorsStripped ==
    /\ \A r \in DOMAIN ipending :
         /\ (r.hexMode /\ HexWithSeparators(r.inputText) /\ Len(DigitsOf(r.inputText)) % 2 = 0)
              => r.messageToSend = PairBytes(DigitsOf(r.inputText))
         /\ (r.hexMode /\ r.inputText = HexExample /\ r.lineEnding = "None")
              => r.message = <<65, 66, 67, 68>>
    /\ (hexResult.called /\ hexResult.hex = HexExample)
         => hexResult.value = <<65, 66, 67, 68>>

\* "41 42-43:44" is on its way to the backend in Hex mode with no line ending
C21_Witness ==
    \E r \in DOMAIN ipending :
        /\ r.hexMode /\ r.inputText = HexExample /\ r.lineEnding = "None"
        /\ r.message = <<65, 66, 67, 68>>

OddDigits(s) == HexWithSeparators(s) /\ Len(DigitsOf(s)) % 2 = 1

\* C22: in Hex mode a text with an odd number of hex digits has its last
\* digit dropped: only the complete pairs become bytes, nothing is produced
\* for the digit left over, and no error is raised.
C22_TrailingNibbleDropped ==
    /\ \A r \in DOMAIN ipending :
         (r.hexMode /\ OddDigits(r.inputText))
            => /\ r.messageToSend = PairBytes(DigitsOf(r.inputText))
               /\ notified # "input error"
    /\ (hexResult.called /\ OddDigits(hexResult.hex))
         => hexResult.value = PairBytes(DigitsOf(hexResult.hex))

\* "414" sent in Hex mode with no line ending
Sends414(r) == r.hexMode /\ r.inputText = <<52, 49, 52>> /\ r.lineEnding = "None"

\* C23 as stated: encode("414", Hex, None) is the two bytes 0x41, 0x42.
C23_Encode414TwoBytes ==
    \A r \in DOMAIN ipending : Sends414(r) => r.message = <<65, 66>>

\* C23 amended: encode("414", Hex, None) is the single byte 0x41, the
\* trailing digit being dropped.
C23_Encode414OneByte ==
    \A r \in DOMAIN ipending : Sends414(r) => r.message = <<65>>

\* "414" is on its way to the backend in Hex mode with no line ending
C23_Witness ==
    \E r \in DOMAIN ipending : Sends414(r) /\ Len(r.message) = 1

\* the characters of a line ending: nothing, \r, \n, \r\n
LineEndingSequence(ending) ==
    IF ending = "CR" THEN <<13>>
    ELSE IF ending = "LF" THEN <<10>>
    ELSE IF ending = "CRLF" THEN <<13, 10>>
    ELSE <<>>

\* C24: the selected line ending is appended after the payload has been
\* produced, in Text mode and in Hex mode alike: the message sent is the
\* payload (the text as typed in Text mode) followed by exactly the
\* characters of that line ending.
C24_LineEndingAfterPayload ==
    \A r \in DOMAIN ipending :
        /\ r.message = r.messageToSend \o LineEndingSequence(r.lineEnding)
        /\ ~r.hexMode => r.messageToSend = r.inputText

\* "41" is on its way in Hex mode with CRLF, as 0x41 \r \n
C24_Witness ==
    \E r \in DOMAIN ipending :
        /\ r.hexMode /\ r.lineEnding = "CRLF" /\ r.inputText = <<52, 49>>
        /\ r.message = <<65, 13, 10>>

\* a text sent in Text mode with no line ending has been displayed
DisplayedTextNone ==
    /\ displayed.called
    /\ ~displayed.request.hexMode
    /\ displayed.request.lineEnding = "None"
    /\ \A i \in 1..Len(displayed.request.inputText) :
         displayed.request.inputText[i] \in 0..127

Zero == <<48>>

\* typing 0 into the max-reconnect field leaves 0 in the configuration
ZeroIsKept ==
    (tcp_config.auto_reconnect /\ max_reconnect_input(Zero))
        => tcp_config'.max_reconnect_attempts = 0

\* C26: a max_reconnect_attempts of 0 typed by the user reaches the
\* connection configuration as 0 and is never replaced by a default.
C26_ZeroIsKept == [][ZeroIsKept]_vars

\* ------------------------------------------------------------------------
\* Claims about the reconnection policy
\* ------------------------------------------------------------------------
\* Tcp{auto_reconnect: true, max_reconnect_attempts: 2, interval: 1}
Scenario ==
    manager.config = [auto_reconnect |-> TRUE, reconnect_interval_sec |-> 1,
                      max_reconnect_attempts |-> 2]

ThreeCloses == Scenario /\ manager.closes = 3

\* at rest, with the exhaustion as the error unless a disconnect() ended it
Settled ==
    /\ manager.status \in {"Disconnected", "Error"}
    /\ manager.status = "Error" => manager.error = ReconnectExhaustedError

\* C27: with auto_reconnect, 2 attempts at most and an interval of 1, three
\* unexpected closes in a row are followed by exactly 2 retries, never a
\* 3rd, and the manager comes to rest Disconnected with
\* ReconnectExhaustedError.
C27_TwoRetriesThenExhausted ==
    /\ [](Scenario => manager.attempts <= 2)
    /\ [](ThreeCloses => manager.attempts = 2 /\ Settled)
    /\ ThreeCloses ~> (manager.status = "Disconnected" /\ manager.attempts = 2)

C27_Witness ==
    /\ ThreeCloses
    /\ manager.status = "Disconnected"
    /\ manager.error = ReconnectExhaustedError

\* ------------------------------------------------------------------------
\* Claims about failures of the application store's operations
\* ------------------------------------------------------------------------
\* connect_device or disconnect_device comes back failed
FailedConnect ==
    \E r \in DOMAIN apending, o \in {"fail", "throw"} : actions_connect_error(r, o)

FailedDisconnect ==
    \E r \in DOMAIN apending, o \in {"fail", "throw"} :
        actions_disconnect_settled(r, o)

\* the store holds an error for the caller after the failed operation
FailureSurfaced ==
    (FailedConnect \/ FailedDisconnect) => appConnection'.error # NULL

\* C28: every failed connect or disconnect is surfaced to the caller as an
\* error with a human-readable detail; it is never swallowed and never
\* completes as if it had succeeded.
C28_FailureSurfaced == [][FailureSurfaced]_vars

\* ------------------------------------------------------------------------
\* Claims about the filtered view and the history cursor
\* ------------------------------------------------------------------------
\* C29: after any sequence of setSearchQuery, addMessage, loadMessages and
\* clearMessages the filtered view is the filter of the log by the query:
\* the whole log for a blank query, else the messages containing it.
C29_FilteredViewFollowsLog ==
    filteredMessages = IF Blank(searchQuery) THEN messages
                       ELSE Matching(searchQuery)

\* C30: after any sequence of push, prev, next and loadCommandHistory the
\* cursor is null or an index of the history, 0 <= i < commands.length.
C30_CursorNullOrValid ==
    \/ commandHistory.current_index = NoIndex
    \/ commandHistory.current_index \in 0..(Len(commandHistory.commands) - 1)

\* ------------------------------------------------------------------------
\* Claims about the consistency of the connection store
\* ------------------------------------------------------------------------
\* C31: connectionStatus is 'Connected' exactly when currentConnection is
\* non-null, in every state reached through connect, disconnect and
\* checkConnectionStatus.
C31_ConnectedIffSession ==
    (connectionStatus = "Connected") <=> (currentConnection # NULL)

\* ------------------------------------------------------------------------
\* Claims about the connection flags of the application store
\* ------------------------------------------------------------------------
\* C32: in appState.connection, isConnected and isConnecting are never both
\* true, under any interleaving of actions.connect, actions.disconnect and
\* connection-status-changed events.
C32_NotConnectedAndConnecting ==
    ~(appConnection.isConnected /\ appConnection.isConnecting)

\* ------------------------------------------------------------------------
\* Claims about the loading flag of the connection store
\* ------------------------------------------------------------------------
\* a refreshPorts, connect or disconnect request awaits its response
AwaitingResponse ==
    NumInFlight("get_serial_ports") + NumInFlight("connect_device")
        + NumInFlight("disconnect_device") > 0

\* C33: isLoading is true whenever a refreshPorts, connect or disconnect
\* request is still awaiting its backend response, also when several of
\* these operations overlap.
C33_LoadingWhileAwaiting == AwaitingResponse => isLoading

\* ------------------------------------------------------------------------
\* Claims about the profile bookkeeping after a connect
\* ------------------------------------------------------------------------
\* the last await of connect returns, and connect resolves
ConnectResolves(r) ==
    \/ setActiveProfile_success(r)
    \/ \E o \in {"fail", "throw"} : setActiveProfile_error(r, o)

\* connect alone in flight and the store Connected without an error: that is
\* how connect resolves, whatever became of the bookkeeping
CleanAfterConnect ==
    \A r \in DOMAIN pending :
        (/\ BagCardinality(pending) = 1
         /\ connectionStatus = "Connected"
         /\ error = NULL
         /\ ConnectResolves(r))
            => (connectionStatus' = "Connected" /\ error' = NULL)

\* C34: when connect(config) resolves, the store is Connected with error
\* null; a failure of updateRecentProfile / setActiveProfile leaves no error
\* in the store.
C34_CleanAfterConnect == [][CleanAfterConnect]_vars

\* ------------------------------------------------------------------------
\* Claims about the event listeners and the log of the application store
\* ------------------------------------------------------------------------
\* C35: however many times initializeEventListeners is called, also with
\* calls that overlap before the first has finished, each backend event
\* listener is registered at most once.
C35_ListenersRegisteredOnce ==
    listeners.message <= 1 /\ listeners.status <= 1


\* C36: each received backend message is appended to appState.messages at
\* most once: whatever the sequence of terminal-message-received
\* deliveries, no two entries of the log carry the same backend message id.
C36_NoRepeatedMessageId ==
    \A i, j \in 1..Len(appMessages) :
        (i # j /\ appMessages[i].id # UUID)
            => appMessages[i].id # appMessages[j].id


\* a send completes while the input field holds another text than it sent
TypedDuringSend(r) ==
    /\ actions_sendMessage_success(r)
    /\ Trim(currentInput) # r.message.content

TypedDuringSendIsKept ==
    \A r \in DOMAIN apending : TypedDuringSend(r) => currentInput' = currentInput

\* C37: actions.sendMessage clears from the input field only the text it
\* sent: text entered into currentInput while the send awaits its response
\* is still there after the send completes.
C37_TypedDuringSendIsKept == [][TypedDuringSendIsKept]_vars


\* ------------------------------------------------------------------------
\* Claims about the completion of connect and disconnect in the application
\* store
\* ------------------------------------------------------------------------
\* actions.disconnect() completes, whatever disconnect_device answered
DisconnectCompletes ==
    \E r \in DOMAIN apending, o \in Outcomes : actions_disconnect_settled(r, o)

DisconnectLeavesNoSession ==
    DisconnectCompletes =>
        (~appConnection'.isConnected /\ appConnection'.config = NoConfig)

\* C38: when actions.disconnect() completes, appState.connection has
\* isConnected false and config null in every case: success, failure
\* response or thrown exception.
C38_DisconnectLeavesNoSession == [][DisconnectLeavesNoSession]_vars

\* a session was opened and then closed by a disconnect that failed: no
\* listener that could have cleared the flags, and no entry in the log after
\* that of the connect
C38_Witness ==
    /\ listeners.status = 0
    /\ apending = EmptyBag
    /\ Len(appMessages) > 0
    /\ appMessages[Len(appMessages)] = InfoMessage(<<TcpLocal.name, "connected">>)
    /\ ~appConnection.isConnected
    /\ appConnection.config = NoConfig


\* C39: every actions.connect() that sets isConnecting to true sets it back
\* to false once the backend call settles (success, failure response or
\* exception): the store is not left connecting with no connect_device
\* request in flight, and a connecting store comes out of that state.
C39_ConnectingEnds ==
    /\ [](ANumInFlight("connect_device") = 0 => ~appConnection.isConnecting)
    /\ appConnection.isConnecting ~> ~appConnection.isConnecting

\* a connect whose invoke was rejected has ended, and the flag is down
C39_Witness ==
    /\ appConnection.error = "connection error"
    /\ ANumInFlight("connect_device") = 0
    /\ ~appConnection.isConnecting

====
